---------------------------- MODULE Spec2Model ----------------------------
(***************************************************************************)
(* Command decomposition, the per-frame action engine and the map and      *)
(* path systems of the mercenaries game (src/src/main.rs).                 *)
(*                                                                         *)
(* Numbers.  Every f32 of the program is a fixed-point integer: the f32    *)
(* value x is the integer x * Scale (F(x)), truncated toward zero.  The    *)
(* f32 NaN is the integer NaN, which no other value of the model equals;   *)
(* arithmetic propagates it and every comparison with it is false.         *)
(* Option<T> is a set with at most one element: {} is None, {v} Some(v).   *)
(*                                                                         *)
(* Scope.  The run follows the player's entity (Controlled::new(0), no     *)
(* Behaviour, so the path systems never write its Nerve) and one hostile   *)
(* it can be ordered against.  Spec takes the run up at a frame where the  *)
(* hostile has loitered to (160, 100) and stands with an empty Nerve;      *)
(* EngineSpec draws the hostile's distance and its loitering Move, and     *)
(* the player's Nerve, from bounded sets.  PathSpec runs the whole frame,   *)
(* map systems and loitering included, on the hostiles as add_hostiles     *)
(* spawns them; BudgetSpec runs the three systems of MapPlugin on a world  *)
(* with more Pathfinders than one tick serves.  LiveSpec is Spec with the   *)
(* frame schedule taken to be fair.  TileSpec runs the systems of          *)
(* MapPlugin on one Person at positions on and off the map; SearchSpec     *)
(* runs the path search on maps, starts and goals drawn from bounded sets. *)
(* WaitingSpec is Spec taken up with a Wait in the player's Nerve.         *)
(* CrowdSpec, RushSpec and SquadSpec run the whole frame on a row of       *)
(* loitering entities longer than one tick serves: standing or stepping    *)
(* under a fair schedule (CrowdSpec), walking into the next tile           *)
(* (RushSpec), and with a squadmate the player orders about (SquadSpec).   *)
(* The map holds a weight for each of its tiles, the search is astar over  *)
(* MapData::successors with MapData::get_diag_dist as the estimate.        *)
(***************************************************************************)
EXTENDS Integers, Sequences, FiniteSets, TLC

\* ------------------------------------------------------------ bounds ----
\* fixed-point resolution: model units per world unit
Scale == 16
\* frames per second of the modelled run: time.delta_seconds = 1 / FrameRate
FrameRate == 8
\* how many left clicks the player makes in a run
MaxCommands == 2
\* how many frames a run of the engine on drawn Nerves lasts
MaxFrames == 12
\* how many loitering entities a run of the whole frame follows
NumWalkers == 1
\* how many more pathfinders than MAX_PATHFINDERS a run of the map plugin has
Surplus == 2

\* ----------------------------------------------------------- numbers ----
NaN == -1000000000

F(x) == x * Scale

IsNaN(a) == a = NaN
Add(a, b) == IF IsNaN(a) \/ IsNaN(b) THEN NaN ELSE a + b
Sub(a, b) == IF IsNaN(a) \/ IsNaN(b) THEN NaN ELSE a - b
Lt(a, b) == ~IsNaN(a) /\ ~IsNaN(b) /\ a < b
Gt(a, b) == ~IsNaN(a) /\ ~IsNaN(b) /\ a > b
Abs(a) == IF IsNaN(a) THEN NaN ELSE IF a < 0 THEN -a ELSE a
\* integer quotient truncated toward zero (a / b of two fixed-point numbers)
Quot(a, b) == IF a >= 0 THEN a \div b ELSE -((-a) \div b)

RECURSIVE SqrtBetween(_, _, _)
SqrtBetween(n, lo, hi) ==
    IF lo >= hi THEN lo
    ELSE LET mid == (lo + hi + 1) \div 2
         IN IF mid * mid <= n THEN SqrtBetween(n, mid, hi)
                              ELSE SqrtBetween(n, lo, mid - 1)
\* floor of the square root
Sqrt(n) == SqrtBetween(n, 0, 46340)

\* Vec2 is <<x, y>>
Vec2Sub(a, b) == <<Sub(a[1], b[1]), Sub(a[2], b[2])>>
Vec2Add(a, b) == <<Add(a[1], b[1]), Add(a[2], b[2])>>
\* Vec2::length
Length(v) == IF IsNaN(v[1]) \/ IsNaN(v[2]) THEN NaN
             ELSE Sqrt(v[1] * v[1] + v[2] * v[2])
\* normalize(v) * k: the zero vector normalizes to NaN (0 * (1/0))
ScaleAlong(v, k) ==
    LET len == Length(v)
    IN IF IsNaN(len) \/ IsNaN(k) \/ len = 0 THEN <<NaN, NaN>>
       ELSE <<Quot(v[1] * k, len), Quot(v[2] * k, len)>>

\* ------------------------------------------------- eased velocity law ----
\* the distance constant 137.5 of get_straightline_velocity
EaseDist == (275 * Scale) \div 2
\* 65536 * 2^(-j/8), j = 0..8
PowEighths == <<65536, 60097, 55109, 50535, 46341, 42495, 38968, 35734, 32768>>
RECURSIVE Halve(_, _)
Halve(x, n) == IF n = 0 THEN x ELSE Halve(x \div 2, n - 1)
\* 65536 * 2^(-m/8) for a whole number m of eighths
PowAt(m) == Halve(PowEighths[(m % 8) + 1], m \div 8)
\* 65536 * 2^(-10 * dist / 137.5), 0 <= dist < EaseDist: the exponent in
\* eighths is 80 * dist / EaseDist; linear between neighbouring eighths
Pow2Neg(dist) ==
    LET m == (80 * dist) \div EaseDist
        r == (80 * dist) % EaseDist
    IN PowAt(m) - ((PowAt(m) - PowAt(m + 1)) * r) \div EaseDist
\* ezing::expo_out(min(dist / 137.5, 1.0)) * 137.5
EaseSpeed(dist) ==
    IF dist >= EaseDist THEN EaseDist
    ELSE (EaseDist * (65536 - Pow2Neg(dist))) \div 65536

\* `if new_vel[i].abs() < 1.0 { new_vel[i] = dist_vector[i] }`
SnapAxis(v, d) == IF Lt(Abs(v), F(1)) THEN d ELSE v

get_straightline_velocity(target, curr) ==
    LET dist_vector == Vec2Sub(target, curr)
        dist == Length(dist_vector)
        new_vel == IF Gt(dist, 0)
                   THEN ScaleAlong(dist_vector, EaseSpeed(dist))
                   ELSE <<0, 0>>
    IN <<SnapAxis(new_vel[1], dist_vector[1]),
         SnapAxis(new_vel[2], dist_vector[2])>>

\* a comparison without the tolerance
close_enough_exact(x, y, enough) == x = y

\* close_enough(x, y, enough)
close_enough(x, y, enough) == Lt(Abs(Sub(x, y)), enough)

\* ------------------------------------------------------------- world ----
\* the entities of the run; an entity's Id is its name
Ents == {"p0", "h0"}
\* the order in which a query visits the entities (spawn order)
EntOrder == <<"p0", "h0">>
\* Person.attitude
Attitude == [e \in Ents |-> IF e = "p0" THEN "Squad" ELSE "Hostile"]
\* the entities spawned with a Controlled component, and their squad index
CtrlEnts == {"p0"}
SquadPos == [e \in CtrlEnts |-> 0]
\* Size(10.0, 10.0)
EntSize == <<F(10), F(10)>>
\* where the entities stand when the run starts
StartPos == [e \in Ents |-> IF e = "p0" THEN <<F(100), F(100)>>
                                        ELSE <<F(160), F(100)>>]
\* the points of the window the player clicks besides the entities themselves
FreePoints == {<<F(130), F(140)>>, <<F(100), F(103)>>}
\* the keys the player holds
Keys == {"LShift", "LControl", "Key1"}

\* --------------------------------------------------------- data model ----
None == {}
Some(v) == {v}
Unwrap(o) == CHOOSE v \in o : TRUE

\* Action::default()
EmptyAction == [action_type |-> "Empty", target |-> <<None, None>>, params |-> None]
\* a params HashMap: one Option per recognised key
NoParams == [range |-> None, min_range |-> None, no_skip |-> None, duration |-> None]
\* params.get(key) behind `if let Some(params) = &action.params`
ParamGet(action, key) ==
    IF action.params = None THEN None ELSE Unwrap(action.params)[key]

\* Nerve::new()
NewNerve == [current_action |-> EmptyAction, action_queue |-> <<>>, action_timer |-> None]
\* Nerve::is_curr_action_empty
is_curr_action_empty(n) == n.current_action.action_type = "Empty"

\* Command::default()
EmptyCommand == [command_type |-> "Empty", target_id |-> None, target_point |-> None]
\* Controlled::new(i)
NewControlled(i) == [current_command |-> EmptyCommand, squad_pos |-> i, command_queue |-> <<>>]

\* `if let Some(action) = action_queue.pop_front() { current_action = action }
\*  else { current_action = Action::default() }`
PopAction(n) ==
    IF n.action_queue # <<>>
    THEN [n EXCEPT !.current_action = Head(n.action_queue),
                   !.action_queue = Tail(n.action_queue)]
    ELSE [n EXCEPT !.current_action = EmptyAction]

\* ------------------------------------------------ command decomposer ----
MoveAction(target, params) ==
    [action_type |-> "Move", target |-> target, params |-> Some(params)]
AttackAction(target, params) ==
    [action_type |-> "Attack", target |-> target, params |-> Some(params)]

\* a decomposer that pushes the Attack before the Move that approaches
CommandActionsAttackFirst(command) ==
    LET params == [NoParams EXCEPT !.range = Some(F(40)), !.min_range = Some(F(20))]
    IN IF command.command_type = "Attack"
       THEN <<AttackAction(<<None, command.target_id>>, params),
              MoveAction(<<None, command.target_id>>, params)>>
       ELSE IF command.command_type = "Move"
       THEN <<MoveAction(<<command.target_point, None>>,
                         [NoParams EXCEPT !.range = Some(F(0))])>>
       ELSE <<>>

\* the actions a command's match arm pushes onto the cleared queue
CommandActions(command) ==
    CASE command.command_type = "Move" ->
           <<MoveAction(<<command.target_point, None>>,
                        [NoParams EXCEPT !.range = Some(F(0))])>>
      [] command.command_type = "Attack" ->
           LET params == [NoParams EXCEPT !.range = Some(F(40)),
                                          !.min_range = Some(F(20))]
           IN <<MoveAction(<<None, command.target_id>>, params),
                AttackAction(<<None, command.target_id>>, params)>>
      [] command.command_type = "Flee" ->
           <<MoveAction(<<command.target_point, command.target_id>>,
                        [NoParams EXCEPT !.min_range = Some(F(200))])>>
      [] command.command_type = "Follow" ->
           <<MoveAction(<<None, command.target_id>>,
                        [NoParams EXCEPT !.range = Some(F(40)),
                                         !.no_skip = Some(F(1))])>>
      [] OTHER -> <<>>

\* a decomposer that merges: it keeps the current action and appends
DecomposeMerging(command, n) ==
    [n EXCEPT !.action_queue = n.action_queue \o CommandActions(command)]

\* a decomposer whose Empty arm clears the queue
DecomposeClearing(command, n) ==
    IF command.command_type \in {"Move", "Attack", "Flee", "Follow"}
    THEN [n EXCEPT !.current_action = EmptyAction,
                   !.action_queue = CommandActions(command)]
    ELSE [n EXCEPT !.action_queue = <<>>]

\* a decomposer whose Empty arm drops the action in flight
DecomposeResetting(command, n) ==
    IF command.command_type \in {"Move", "Attack", "Flee", "Follow"}
    THEN [n EXCEPT !.current_action = EmptyAction,
                   !.action_queue = CommandActions(command)]
    ELSE [n EXCEPT !.current_action = EmptyAction]

\* the match on command.command_type of move_controlled_system, on one Nerve:
\* the four order arms reset the current action and replace the queue, the
\* `_` arm (the Empty command) touches nothing
Decompose(command, n) ==
    IF command.command_type \in {"Move", "Attack", "Flee", "Follow"}
    THEN [n EXCEPT !.current_action = EmptyAction,
                   !.action_queue = CommandActions(command)]
    ELSE n

\* a decomposer that leaves the command in place
NextCommandKeeping(state) == state

\* "pop the command queue and ready the next command"
NextCommand(state) ==
    IF state.command_queue # <<>>
    THEN [state EXCEPT !.current_command = Head(state.command_queue),
                       !.command_queue = Tail(state.command_queue)]
    ELSE [state EXCEPT !.current_command = EmptyCommand]

\* ------------------------------------------------------ action engine ----
\* what one pass of the loop body of run_action_system leaves for one entity:
\* its Nerve, its Velocity, its animation type, and the panic it raised if any
Outcome(n, vel, anim, panic) ==
    [nerve |-> n, velocity |-> vel, animation_type |-> anim, panic |-> panic]

\* the scan of ent_query for an id: (NAN, NAN) when no entity carries it
LookupPosition(tid, positions) ==
    IF tid \in DOMAIN positions THEN positions[tid] ELSE <<NaN, NaN>>

\* an engine without the validity check
InvalidRangesNever(range, min_range) == FALSE

\* `min_range > range` with both parameters present
InvalidRanges(range, min_range) ==
    range # None /\ min_range # None /\ Gt(Unwrap(min_range), Unwrap(range))

\* an engine that does not read no_skip
CanSkipAlways(no_skip) == TRUE

\* `let mut can_skip = true; if no_skip > 0.0 { can_skip = false }`
CanSkip(no_skip) == ~(no_skip # None /\ Gt(Unwrap(no_skip), 0))

\* a rest test that looks at the x axis alone
AtRestOnX(vel) == Lt(Abs(vel[1]), F(1))

\* `vel.0.abs() < 1.0 && vel.1.abs() < 1.0`
AtRest(vel) == Lt(Abs(vel[1]), F(1)) /\ Lt(Abs(vel[2]), F(1))

\* an edge on the wrong side: target_dir * (bound - dist) + pos
EdgePointInward(target_vector, dist, bound, pos) ==
    Vec2Add(ScaleAlong(target_vector, Sub(bound, dist)), pos)

\* the edge of the dead zone: target_dir * (dist - bound) + pos
EdgePoint(target_vector, dist, bound, pos) ==
    Vec2Add(ScaleAlong(target_vector, Sub(dist, bound)), pos)

\* a Move arm that stops the entity inside the dead zone
MoveVelocityZeroing(use_move_vector, move_to, pos, vel) ==
    IF use_move_vector THEN get_straightline_velocity(move_to, pos) ELSE <<0, 0>>

\* `if use_move_vector { vel = get_straightline_velocity(move_to, pos) }`:
\* without the flag the velocity is not written
MoveVelocity(use_move_vector, move_to, pos, vel) ==
    IF use_move_vector THEN get_straightline_velocity(move_to, pos) ELSE vel

\* a Move arm that takes the literal point when the target has one
RunMovePointFirst(e, n, pos, vel, positions) ==
    LET action == n.current_action
        point == action.target[1]
        tid == action.target[2]
        n1 == IF tid # None /\ Unwrap(tid) = e THEN PopAction(n) ELSE n
        target == IF point # None THEN Unwrap(point)
                  ELSE LookupPosition(Unwrap(tid), positions)
        range == ParamGet(action, "range")
        min_range == ParamGet(action, "min_range")
        no_skip == ParamGet(action, "no_skip")
        target_vector == Vec2Sub(target, pos)
        dist == Length(target_vector)
        too_near == min_range # None /\ Lt(dist, Unwrap(min_range))
        too_far == range # None /\ Gt(dist, Unwrap(range))
        move_to == IF too_far THEN EdgePoint(target_vector, dist, Unwrap(range), pos)
                   ELSE IF too_near
                        THEN EdgePoint(target_vector, dist, Unwrap(min_range), pos)
                   ELSE target
        new_vel == MoveVelocity(too_near \/ too_far, move_to, pos, vel)
        n2 == IF AtRest(new_vel) /\ CanSkip(no_skip) THEN PopAction(n1) ELSE n1
    IN IF point = None /\ tid = None
       THEN Outcome(n, vel, "Move", Some("move action has no target"))
       ELSE IF InvalidRanges(range, min_range)
       THEN Outcome(n1, vel, "Move", Some("min_range > range"))
       ELSE Outcome(n2, new_vel, "Move", None)

\* the ActionType::Move arm
RunMove(e, n, pos, vel, positions) ==
    LET action == n.current_action
        point == action.target[1]
        tid == action.target[2]
        \* a self-targeted move is popped at once; the arm then runs on
        n1 == IF tid # None /\ Unwrap(tid) = e THEN PopAction(n) ELSE n
        target == IF tid # None THEN LookupPosition(Unwrap(tid), positions)
                  ELSE Unwrap(point)
        range == ParamGet(action, "range")
        min_range == ParamGet(action, "min_range")
        no_skip == ParamGet(action, "no_skip")
        target_vector == Vec2Sub(target, pos)
        dist == Length(target_vector)
        too_near == min_range # None /\ Lt(dist, Unwrap(min_range))
        too_far == range # None /\ Gt(dist, Unwrap(range))
        move_to == IF too_far THEN EdgePoint(target_vector, dist, Unwrap(range), pos)
                   ELSE IF too_near
                        THEN EdgePoint(target_vector, dist, Unwrap(min_range), pos)
                   ELSE target
        new_vel == MoveVelocity(too_near \/ too_far, move_to, pos, vel)
        n2 == IF AtRest(new_vel) /\ CanSkip(no_skip) THEN PopAction(n1) ELSE n1
    IN IF point = None /\ tid = None
       THEN Outcome(n, vel, "Move", Some("move action has no target"))
       ELSE IF InvalidRanges(range, min_range)
       THEN Outcome(n1, vel, "Move", Some("min_range > range"))
       ELSE Outcome(n2, new_vel, "Move", None)

\* the out-of-band test of the Attack arm; without a range nothing is tested
Reattach(dist, range, min_range) ==
    /\ range # None
    /\ \/ /\ min_range # None
          /\ Lt(dist, Unwrap(min_range))
          /\ ~close_enough(dist, Unwrap(min_range), F(1))
       \/ /\ Gt(dist, Unwrap(range))
          /\ ~close_enough(dist, Unwrap(range), F(1))

\* "retrack target", "attack target once target is tracked", then pop
Retrack(n, action) ==
    PopAction([n EXCEPT !.action_queue =
        Append(Append(n.action_queue,
               [action_type |-> "Move", target |-> action.target,
                params |-> action.params]),
               [action_type |-> "Attack", target |-> action.target,
                params |-> action.params])])

\* an Attack arm that retracks whatever the queue holds
RunAttackRetracking(e, n, pos, vel, positions, anim) ==
    LET action == n.current_action
        tid == action.target[2]
        target_pos == LookupPosition(Unwrap(tid), positions)
        range == ParamGet(action, "range")
        min_range == ParamGet(action, "min_range")
        dist == Length(Vec2Sub(target_pos, pos))
        n1 == IF Reattach(dist, range, min_range) THEN Retrack(n, action) ELSE n
    IN IF tid = None
       THEN Outcome(n, vel, "Attack", Some("unwrap on a None value"))
       ELSE IF InvalidRanges(range, min_range)
       THEN Outcome(n, vel, "Attack", Some("min_range > range"))
       ELSE Outcome(n1, vel, "Attack", None)

\* the ActionType::Attack arm
RunAttack(e, n, pos, vel, positions, anim) ==
    LET action == n.current_action
        tid == action.target[2]
        target_pos == LookupPosition(Unwrap(tid), positions)
        range == ParamGet(action, "range")
        min_range == ParamGet(action, "min_range")
        dist == Length(Vec2Sub(target_pos, pos))
        n1 == IF Reattach(dist, range, min_range) /\ n.action_queue = <<>>
              THEN Retrack(n, action) ELSE n
    IN IF tid = None
       THEN Outcome(n, vel, "Attack", Some("unwrap on a None value"))
       ELSE IF InvalidRanges(range, min_range)
       THEN Outcome(n, vel, "Attack", Some("min_range > range"))
       ELSE Outcome(n1, vel, "Attack", None)

\* time.delta_seconds
DeltaSeconds == F(1) \div FrameRate

\* Timer::from_seconds(seconds, false)
NewTimer(seconds) == [elapsed |-> 0, duration |-> seconds, finished |-> FALSE]
\* a timer that is finished by its first tick
TimerTickExpiring(timer, delta) == [timer EXCEPT !.finished = TRUE]

\* Timer::tick(delta)
TimerTick(timer, delta) ==
    LET elapsed == IF timer.elapsed + delta < timer.duration
                   THEN timer.elapsed + delta ELSE timer.duration
    IN [timer EXCEPT !.elapsed = elapsed,
                     !.finished = timer.finished \/ elapsed >= timer.duration]

\* the ActionType::Wait arm
RunWait(n, vel, anim) ==
    LET action == n.current_action
        duration == ParamGet(action, "duration")
        ticked == TimerTick(Unwrap(n.action_timer), DeltaSeconds)
    IN IF n.action_timer # None
       THEN IF ticked.finished
            THEN Outcome(PopAction([n EXCEPT !.action_timer = None]), vel, anim, None)
            ELSE Outcome([n EXCEPT !.action_timer = Some(ticked)], vel, anim, None)
       ELSE Outcome([n EXCEPT !.action_timer =
                        Some(NewTimer(IF duration # None THEN Unwrap(duration)
                                                         ELSE F(1)))],
                    vel, anim, None)

\* an Empty arm that zeroes the velocity and promotes nothing
RunEmptyStalling(n) == Outcome(n, <<0, 0>>, "Idle", None)

\* the ActionType::Empty arm
RunEmpty(n) == Outcome(PopAction(n), <<0, 0>>, "Idle", None)

\* a loop body that pops a Move without a target in place of the panic
RunActionPoppingUntargeted(e, n, pos, vel, positions, anim) ==
    CASE n.current_action.action_type = "Move" ->
             IF n.current_action.target = <<None, None>>
             THEN Outcome(PopAction(n), vel, "Move", None)
             ELSE RunMove(e, n, pos, vel, positions)
      [] n.current_action.action_type = "Attack" ->
             RunAttack(e, n, pos, vel, positions, anim)
      [] n.current_action.action_type = "Wait" -> RunWait(n, vel, anim)
      [] OTHER -> RunEmpty(n)

\* the body of the loop of run_action_system for entity e
RunAction(e, n, pos, vel, positions, anim) ==
    CASE n.current_action.action_type = "Move" -> RunMove(e, n, pos, vel, positions)
      [] n.current_action.action_type = "Attack" ->
             RunAttack(e, n, pos, vel, positions, anim)
      [] n.current_action.action_type = "Wait" -> RunWait(n, vel, anim)
      [] OTHER -> RunEmpty(n)

\* ------------------------------------------------------ order dispatch ----
check_point_collision(point, box_position, box_size) ==
    LET rx == box_size[1] \div 2
        ry == box_size[2] \div 2
    IN /\ Lt(point[1], Add(box_position[1], rx))
       /\ Gt(point[1], Sub(box_position[1], rx))
       /\ Lt(point[2], Add(box_position[2], ry))
       /\ Gt(point[2], Sub(box_position[2], ry))

\* the first entity, in query order from index i, whose box holds the cursor
RECURSIVE ClickedFrom(_, _, _)
ClickedFrom(i, mouse, positions) ==
    IF i > Len(EntOrder) THEN None
    ELSE IF check_point_collision(mouse, positions[EntOrder[i]], EntSize)
         THEN Some(EntOrder[i])
         ELSE ClickedFrom(i + 1, mouse, positions)

convert_keycode_to_squad_pos(key) == IF key = "Key1" THEN 1 ELSE -1

\* the command type a left click gives: by the attitude of the entity
\* clicked, then by the hotkeys held
ClickCommandType(target_entity, keys) ==
    LET by_attitude ==
            IF target_entity = None THEN "Move"
            ELSE CASE Attitude[Unwrap(target_entity)] \in {"Hostile", "Neutral"} -> "Attack"
                   [] Attitude[Unwrap(target_entity)] = "Squad" -> "Follow"
                   [] OTHER -> "Move"
    IN IF "LShift" \in keys THEN "Flee"
       ELSE IF "LControl" \in keys /\ target_entity # None THEN "Follow"
       ELSE by_attitude

\* the Command written for a click at `mouse` that hit `target_entity`
CommandOf(target_entity, mouse, keys) ==
    LET command_type == ClickCommandType(target_entity, keys)
    IN CASE command_type = "Move" ->
              [command_type |-> "Move", target_point |-> Some(mouse), target_id |-> None]
         [] command_type = "Attack" ->
              [command_type |-> "Attack", target_point |-> None, target_id |-> target_entity]
         [] command_type = "Flee" ->
              [command_type |-> "Flee", target_point |-> Some(mouse), target_id |-> target_entity]
         [] OTHER ->
              [command_type |-> "Follow", target_point |-> None, target_id |-> target_entity]

\* the Command written into every commanded Controlled
ClickCommand(mouse, keys, positions) ==
    CommandOf(ClickedFrom(1, mouse, positions), mouse, keys)

\* the squad indices ordered: the numeric hotkeys held, or 0 when there is none
SquadControl(keys) ==
    LET held == {convert_keycode_to_squad_pos(k) : k \in keys} \ {-1}
    IN IF held = {} THEN {0} ELSE held

\* ---------------------------------------------------------------- map ----
\* static WINDOW_WIDTH, WINDOW_HEIGHT, TILE_SIZE, MAX_PATHFINDERS
WINDOW_WIDTH == 800
WINDOW_HEIGHT == 450
TILE_SIZE == 10
MAX_PATHFINDERS == 10
\* MapData.size: the tiles of the window
MapSize == <<WINDOW_WIDTH \div TILE_SIZE, WINDOW_HEIGHT \div TILE_SIZE>>
\* the test of TilePos::from_coords that panics: `x < 0.0 || y < 0.0`
BadCoords(p) == Lt(p[1], 0) \/ Lt(p[2], 0)
\* `(x / TILE_SIZE) as usize`; the cast takes NaN to 0
AsTile(x) == IF IsNaN(x) \/ x < 0 THEN 0 ELSE x \div F(TILE_SIZE)
\* TilePos::from_coords past its panic
from_coords(p) == <<AsTile(p[1]), AsTile(p[2])>>
\* TilePos::to_coords: the centre of the tile
to_coords(t) ==
    <<F(TILE_SIZE) \div 2 + t[1] * F(TILE_SIZE),
      F(TILE_SIZE) \div 2 + t[2] * F(TILE_SIZE)>>
\* the index of a tile in MapData.data and MapData.occupied
TileIndex(t) == t[1] + t[2] * MapSize[1]
\* the tile lies in the window (`mx < size.0 && my < size.1 && mx >= 0 && my >= 0`)
InGrid(t) == t[1] >= 0 /\ t[2] >= 0 /\ t[1] < MapSize[1] /\ t[2] < MapSize[2]
\* get_map_weight_from_tile_type: 1.0 for every tile type
get_map_weight_from_tile_type == F(1)
\* the indices of MapData.data and MapData.occupied
TileIndices == 0..(MapSize[1] * MapSize[2] - 1)
\* MapData::new: every weight 0.0, no tile occupied (`occupied` is the set of
\* the indices that hold true)
NewMap == [data |-> [i \in TileIndices |-> 0], occupied |-> {}]
\* MapData::get_weight
get_weight(m, t) == m.data[TileIndex(t)]
\* MapData::is_tile_occupied
is_tile_occupied(m, t) == TileIndex(t) \in m.occupied
\* update_map_system: update_map rewrites the weights and leaves `occupied`
\* alone; then the tile of every Person is set occupied
UpdateMap(m, positions) ==
    LET tiles == {from_coords(positions[e]) : e \in DOMAIN positions}
    IN [map |-> [data |-> [i \in DOMAIN m.data |-> get_map_weight_from_tile_type],
                 occupied |-> m.occupied \cup {TileIndex(t) : t \in tiles}],
        panic |-> IF \E e \in DOMAIN positions : BadCoords(positions[e])
                  THEN Some("bad coordinates: negative, non-existent tile")
                  ELSE IF \E t \in tiles : TileIndex(t) >= MapSize[1] * MapSize[2]
                  THEN Some("index out of bounds")
                  ELSE None]

\* Pathfinder::default
NewPathfinder ==
    [needs_pathfinding |-> FALSE, path_ready |-> FALSE, path_start |-> <<0, 0>>,
     path_goal |-> <<0, 0>>, real_goal |-> <<0, 0>>, tile_path |-> <<>>,
     path |-> <<>>, path_index |-> 0]

\* the eight neighbours of a tile
Neighbours(t) ==
    {<<t[1] + d[1], t[2] + d[2]>> : d \in ({-1, 0, 1} \X {-1, 0, 1}) \ {<<0, 0>>}}
\* MapData::successors with the four straight neighbours alone
successorsOrthogonal(m, t) ==
    {<<nb, get_weight(m, t)>> :
        nb \in {x \in Neighbours(t) : InGrid(x) /\ (x[1] = t[1] \/ x[2] = t[2])}}

\* MapData::successors: the neighbours that lie in the window, each paired
\* with the cost `self.get_weight(tile)`, the weight of the tile itself
successors(m, t) ==
    {<<nb, get_weight(m, t)>> : nb \in {x \in Neighbours(t) : InGrid(x)}}
\* `c * 1.414`
TimesRoot2(c) == Quot(c * 1414, 1000)
\* MapData::get_diag_dist: c * (dx + dy) + (c * 1.414 - 2.0 * c) * dx.min(dy),
\* c the weight of tile a
get_diag_dist(m, a, b) ==
    LET dx == IF a[1] >= b[1] THEN a[1] - b[1] ELSE b[1] - a[1]
        dy == IF a[2] >= b[2] THEN a[2] - b[2] ELSE b[2] - a[2]
        c == get_weight(m, a)
    IN c * (dx + dy) + (TimesRoot2(c) - 2 * c) * (IF dx <= dy THEN dx ELSE dy)

\* the entry astar pops from its heap: the least estimated cost, and among
\* equals the greatest cost so far
Cheapest(to_see) ==
    CHOOSE n \in to_see :
        \A o \in to_see :
            \/ n.estimated_cost < o.estimated_cost
            \/ n.estimated_cost = o.estimated_cost /\ n.cost >= o.cost
\* the route the parents lead back along, start first
RECURSIVE RouteTo(_, _)
RouteTo(parents, t) ==
    IF parents[t].parent = None THEN <<t>>
    ELSE Append(RouteTo(parents, Unwrap(parents[t].parent)), t)
\* the loop of astar: pop an entry; the goal ends the search; an entry that a
\* cheaper one has overtaken is dropped; else every successor that is new or
\* reached more cheaply gets the popped tile as parent and enters the heap
\* with estimated cost = cost + heuristic
RECURSIVE Search(_, _, _, _)
Search(m, goal, to_see, parents) ==
    IF to_see = {} THEN None
    ELSE LET n == Cheapest(to_see)
             rest == to_see \ {n}
             better == {s \in successors(m, n.tile) :
                           \/ s[1] \notin DOMAIN parents
                           \/ parents[s[1]].cost > n.cost + s[2]}
             cost_to == [t \in {s[1] : s \in better} |->
                            n.cost + (CHOOSE s \in better : s[1] = t)[2]]
         IN IF n.tile = goal
            THEN Some([route |-> RouteTo(parents, goal), cost |-> n.cost])
            ELSE IF n.cost > parents[n.tile].cost
            THEN Search(m, goal, rest, parents)
            ELSE Search(m, goal,
                        rest \cup {[tile |-> t,
                                    estimated_cost |->
                                        cost_to[t] + get_diag_dist(m, t, goal),
                                    cost |-> cost_to[t]] : t \in DOMAIN cost_to},
                        [t \in DOMAIN parents \cup DOMAIN cost_to |->
                            IF t \in DOMAIN cost_to
                            THEN [parent |-> Some(n.tile), cost |-> cost_to[t]]
                            ELSE parents[t]])
\* astar(&start, successors, get_diag_dist, == goal): Some((route, cost)),
\* None when the heap runs empty.  A goal outside the window that is not the
\* start is no successor of any tile, so the search for it ends with None.
astar(m, start, goal) ==
    IF start # goal /\ ~InGrid(goal) THEN None
    ELSE Search(m, goal, {[tile |-> start, estimated_cost |-> 0, cost |-> 0]},
                [t \in {start} |-> [parent |-> None, cost |-> 0]])

\* a body that pushes the goal onto the tiles alone
ComputePathUnpaired(m, pf, pos) ==
    LET start == from_coords(pos)
        route == Unwrap(astar(m, start, pf.path_goal)).route
    IN [pf EXCEPT !.path_index = 0,
                  !.path_start = start,
                  !.tile_path = Append(route, from_coords(pf.real_goal)),
                  !.path = [i \in 1..Len(route) |-> to_coords(route[i])],
                  !.needs_pathfinding = FALSE]

\* a body that puts the real goal in the place of the last centre
ComputePathReplacing(m, pf, pos) ==
    LET start == from_coords(pos)
        route == Unwrap(astar(m, start, pf.path_goal)).route
    IN [pf EXCEPT !.path_index = 0,
                  !.path_start = start,
                  !.tile_path = route,
                  !.path = Append([i \in 1..(Len(route) - 1) |-> to_coords(route[i])],
                                  pf.real_goal),
                  !.needs_pathfinding = FALSE]

\* the body of `if waiting.0 < MAX_PATHFINDERS` past its panics
ComputePath(m, pf, pos) ==
    LET start == from_coords(pos)
        route == Unwrap(astar(m, start, pf.path_goal)).route
    IN [pf EXCEPT !.path_index = 0,
                  !.path_start = start,
                  !.tile_path = Append(route, from_coords(pf.real_goal)),
                  !.path = Append([i \in 1..Len(route) |-> to_coords(route[i])],
                                  pf.real_goal),
                  !.needs_pathfinding = FALSE]
\* the panic of that body, if any
ComputePanic(m, pf, pos) ==
    LET start == from_coords(pos)
    IN IF BadCoords(pos)
       THEN Some("bad coordinates: negative, non-existent tile")
       ELSE IF TileIndex(pf.path_goal) \notin DOMAIN m.data
       THEN Some("index out of bounds")
       ELSE IF /\ start # pf.path_goal
               /\ TileIndex(start) \notin DOMAIN m.data
               /\ \E nb \in Neighbours(start) : InGrid(nb)
       THEN Some("index out of bounds")
       ELSE IF astar(m, start, pf.path_goal) = None
       THEN Some("path not found")
       ELSE IF BadCoords(pf.real_goal)
       THEN Some("bad coordinates: negative, non-existent tile")
       ELSE None
\* the loop of pathfind_system from the i-th entity of the query on, `count`
\* paths served so far: it ends the first time a request finds the budget used
RECURSIVE PathfindFrom(_, _, _, _, _)
PathfindFrom(i, m, pfs, count, positions) ==
    IF i > Len(pfs)
    THEN [pathfinder |-> pfs, waiting |-> count, panic |-> None]
    ELSE IF ~pfs[i].needs_pathfinding
    THEN PathfindFrom(i + 1, m, pfs, count, positions)
    ELSE IF count < MAX_PATHFINDERS
    THEN IF ComputePanic(m, pfs[i], positions[i]) # None
         THEN [pathfinder |-> pfs, waiting |-> count + 1,
               panic |-> ComputePanic(m, pfs[i], positions[i])]
         ELSE PathfindFrom(i + 1, m,
                           [pfs EXCEPT ![i] = ComputePath(m, pfs[i], positions[i])],
                           count + 1, positions)
    ELSE [pathfinder |-> pfs, waiting |-> count, panic |-> None]
\* a system that leaves the count where the loop took it
BudgetCarried(count) == count

\* "reset pathfinders queue": waiting.0 = 0 when the loop is over
BudgetLeft(count) == 0

\* a cursor that runs past every step that lies in the entity's tile
RECURSIVE CursorRunning(_, _)
CursorRunning(pf, pos) ==
    IF pf.path_index < Len(pf.tile_path)
       /\ from_coords(pos) = pf.tile_path[pf.path_index + 1]
    THEN CursorRunning([pf EXCEPT !.path_index = @ + 1], pos)
    ELSE pf.path_index

\* the cursor after the tile test of follow_path_system
Cursor(pf, pos) ==
    IF pf.path_index < Len(pf.tile_path)
       /\ from_coords(pos) = pf.tile_path[pf.path_index + 1]
    THEN pf.path_index + 1
    ELSE pf.path_index
\* a guard that looks at the path alone
ReadyWhenPathLeft(pf, n) == pf.path_index < Len(pf.tile_path)

\* the guard of the enqueue
ReadyToEnqueue(pf, n) ==
    /\ pf.path_index < Len(pf.tile_path)
    /\ is_curr_action_empty(n)
    /\ n.action_queue = <<>>
\* a loop over the whole path, walked steps included
PathMovesWhole(pf) ==
    [i \in 1..Len(pf.tile_path) |->
        MoveAction(<<Some(pf.path[i]), None>>,
                   [NoParams EXCEPT !.range = Some(F(TILE_SIZE))])]

\* the Moves of `for i in pf.path_index..pf.tile_path.len()`
PathMoves(pf) ==
    [i \in 1..(Len(pf.tile_path) - pf.path_index) |->
        MoveAction(<<Some(pf.path[pf.path_index + i]), None>>,
                   [NoParams EXCEPT !.range = Some(F(TILE_SIZE))])]
\* the body of the loop of follow_path_system
FollowPath(pf, n, pos) ==
    LET stepped == [pf EXCEPT !.path_index = Cursor(pf, pos)]
    IN IF Len(pf.tile_path) = 0
       THEN [pathfinder |-> pf, nerve |-> n, panic |-> None]
       ELSE IF pf.path_index < Len(pf.tile_path) /\ BadCoords(pos)
       THEN [pathfinder |-> pf, nerve |-> n,
             panic |-> Some("bad coordinates: negative, non-existent tile")]
       ELSE IF ReadyToEnqueue(stepped, n)
       THEN [pathfinder |-> [stepped EXCEPT !.path_ready = TRUE],
             nerve |-> [n EXCEPT !.action_queue = @ \o PathMoves(stepped)],
             panic |-> None]
       ELSE [pathfinder |-> stepped, nerve |-> n, panic |-> None]

\* f32::max then f32::min, which drop a NaN operand
Clamp(x, lo, hi) ==
    LET a == IF IsNaN(x) \/ x < lo THEN lo ELSE x
    IN IF a > hi THEN hi ELSE a
\* the loiter coordinate: the random deviation added to the position and
\* kept 10 units inside the window
Loiter(pos, rand) ==
    <<Clamp(Add(rand[1], pos[1]), F(10), F(WINDOW_WIDTH) - F(10)),
      Clamp(Add(rand[2], pos[2]), F(10), F(WINDOW_HEIGHT) - F(10))>>
\* the body of the loop of simple_idle_system, `rand` the deviation drawn
Idle(pf, n, pos, rand) ==
    IF is_curr_action_empty(n) /\ n.action_queue = <<>>
    THEN [pf EXCEPT !.needs_pathfinding = TRUE,
                    !.path_goal = from_coords(Loiter(pos, rand)),
                    !.real_goal = Loiter(pos, rand)]
    ELSE pf

\* -------------------------------------------------------------- state ----
VARIABLES
    position,        \* Position of every entity
    velocity,        \* Velocity of every entity
    nerve,           \* Nerve of every entity
    controlled,      \* Controlled of the player's entities
    animation_type,  \* SpriteData.animation_type of every entity
    panicked,        \* Some(message) once a system has panicked
    pc,              \* the system that runs next in the frame
    clicks,          \* left clicks made so far
    frames,          \* frames begun so far, counted where a run is cut short
    ran,             \* the system that ran last
    before,          \* the components as that system found them
    pathfinder,      \* Pathfinder of every entity
    waiting,         \* PathfindersQueue.0
    map,             \* MapData: the weight of the tiles, the occupied tiles
    schedule         \* the systems the App runs each frame, in order

mapvars == <<pathfinder, waiting, map>>

vars == <<position, velocity, nerve, controlled, animation_type, panicked, pc,
          clicks, frames, ran, before, pathfinder, waiting, map, schedule>>

Snapshot == [position |-> position, velocity |-> velocity, nerve |-> nerve,
             controlled |-> controlled, pathfinder |-> pathfinder,
             waiting |-> waiting, map |-> map]

\* the systems of one frame, in the order the plugins register them
Pipeline == <<"move_system", "move_controlled_system", "player_control_system",
              "run_action_system">>
NextSystem(s) ==
    LET i == CHOOSE k \in 1..Len(schedule) : schedule[k] = s
    IN schedule[(i % Len(schedule)) + 1]

\* a system starts: no panic so far, and it is its turn
Starts(s) ==
    /\ panicked = None
    /\ pc = s
    /\ pc' = NextSystem(s)
    /\ ran' = s
    /\ before' = Snapshot
    /\ schedule' = schedule

\* the components as add_people and add_hostiles build them (Nerve::new,
\* Controlled::new, Velocity(0.0, 0.0)), the entities standing at StartPos
Init ==
    /\ position = StartPos
    /\ velocity = [e \in Ents |-> <<0, 0>>]
    /\ nerve = [e \in Ents |-> NewNerve]
    /\ controlled = [e \in CtrlEnts |-> NewControlled(SquadPos[e])]
    /\ animation_type = [e \in Ents |-> "Idle"]
    /\ panicked = None
    /\ pc = Pipeline[1]
    /\ clicks = 0
    /\ frames = 0
    /\ ran = "setup"
    /\ pathfinder = [e \in Ents |-> NewPathfinder]
    /\ waiting = 0
    /\ map = NewMap
    /\ schedule = Pipeline
    /\ before = Snapshot

\* an integrator that leaves every entity where it is
MovedNowhere(pos, vel) == pos

\* pos += vel * time.delta_seconds
Moved(pos, vel) ==
    <<Add(pos[1], IF IsNaN(vel[1]) THEN NaN ELSE Quot(vel[1], FrameRate)),
      Add(pos[2], IF IsNaN(vel[2]) THEN NaN ELSE Quot(vel[2], FrameRate))>>

move_system ==
    /\ Starts("move_system")
    /\ position' = [e \in DOMAIN position |-> Moved(position[e], velocity[e])]
    /\ UNCHANGED <<velocity, nerve, controlled, animation_type, panicked, clicks>>
    /\ UNCHANGED mapvars

move_controlled_system ==
    /\ Starts("move_controlled_system")
    /\ nerve' = [e \in DOMAIN nerve |->
                    IF e \in DOMAIN controlled
                    THEN Decompose(controlled[e].current_command, nerve[e])
                    ELSE nerve[e]]
    /\ controlled' = [e \in DOMAIN controlled |-> NextCommand(controlled[e])]
    /\ UNCHANGED <<position, velocity, animation_type, panicked, clicks>>
    /\ UNCHANGED mapvars

\* no left click this frame: the system does nothing
NoClick ==
    /\ Starts("player_control_system")
    /\ UNCHANGED <<position, velocity, nerve, controlled, animation_type,
                   panicked, clicks>>
    /\ UNCHANGED mapvars

\* MouseButton::Left was just pressed, the cursor at `mouse`, `keys` held
LeftClick(mouse, keys) ==
    /\ Starts("player_control_system")
    /\ clicks < MaxCommands
    /\ clicks' = clicks + 1
    /\ controlled' = [e \in CtrlEnts |->
                        IF controlled[e].squad_pos \in SquadControl(keys)
                        THEN [controlled[e] EXCEPT !.current_command =
                                  ClickCommand(mouse, keys, position)]
                        ELSE controlled[e]]
    /\ UNCHANGED <<position, velocity, nerve, animation_type, panicked>>
    /\ UNCHANGED mapvars

\* where the cursor can be when the player clicks: a free point, or dead
\* centre on an entity
ClickPoints ==
    FreePoints \cup {position[e] : e \in {x \in Ents : ~IsNaN(position[x][1])
                                                     /\ ~IsNaN(position[x][2])}}

player_control_system ==
    \/ NoClick
    \/ \E mouse \in ClickPoints : \E keys \in SUBSET Keys : LeftClick(mouse, keys)

\* the outcome of the loop body for every entity
Outcomes ==
    [e \in DOMAIN nerve |-> RunAction(e, nerve[e], position[e], velocity[e], position,
                              animation_type[e])]

run_action_system ==
    /\ Starts("run_action_system")
    /\ IF \E e \in DOMAIN nerve : Outcomes[e].panic # None
       THEN /\ panicked' =
                   Outcomes[CHOOSE e \in DOMAIN nerve : Outcomes[e].panic # None].panic
            /\ UNCHANGED <<nerve, velocity, animation_type>>
       ELSE /\ nerve' = [e \in DOMAIN nerve |-> Outcomes[e].nerve]
            /\ velocity' = [e \in DOMAIN nerve |-> Outcomes[e].velocity]
            /\ animation_type' = [e \in DOMAIN nerve |-> Outcomes[e].animation_type]
            /\ UNCHANGED panicked
    /\ UNCHANGED <<position, controlled, clicks>>
    /\ UNCHANGED mapvars

Next ==
    \/ move_system /\ UNCHANGED frames
    \/ move_controlled_system /\ UNCHANGED frames
    \/ player_control_system /\ UNCHANGED frames
    \/ run_action_system /\ UNCHANGED frames

Spec == Init /\ [][Next]_vars

\* the schedule hands the turn to the next system unless one has panicked
Turn ==
    /\ panicked = None
    /\ pc' = NextSystem(pc)

\* App::run calls every system in every frame, without end: a frame never
\* stops between two systems
LiveSpec == Spec /\ WF_pc(Turn)

\* ------------------------------------- the engine on arbitrary Nerves ----
\* The engine takes whatever Action its Nerve holds.  EngineSpec starts it
\* from Nerves, distances and velocities drawn from bounded sets, in frames
\* without a click.
PointA == <<F(130), F(140)>>
Act(type, target, params) == [action_type |-> type, target |-> target, params |-> params]
Ranges(range, min_range) == [NoParams EXCEPT !.range = range, !.min_range = min_range]

\* the actions the player's entity is executing
EngineActions ==
    {Act("Attack", <<None, Some("h0")>>, Some(Ranges(Some(F(40)), Some(F(20))))),
     Act("Attack", <<None, Some("h0")>>, Some(Ranges(None, Some(F(20))))),
     Act("Attack", <<None, Some("h0")>>, Some(Ranges(Some(F(40)), None))),
     Act("Attack", <<None, Some("h0")>>, None),
     Act("Attack", <<None, Some("h0")>>, Some(Ranges(Some(F(20)), Some(F(40))))),
     Act("Attack", <<None, None>>, Some(Ranges(Some(F(40)), Some(F(20))))),
     Act("Move", <<None, Some("h0")>>, Some([NoParams EXCEPT !.range = Some(F(40)),
                                                              !.no_skip = Some(F(1))])),
     Act("Move", <<None, Some("p0")>>, Some([NoParams EXCEPT !.range = Some(F(40)),
                                                              !.no_skip = Some(F(1))])),
     Act("Move", <<None, Some("p0")>>, None),
     Act("Move", <<Some(PointA), Some("p0")>>, Some(Ranges(None, Some(F(200))))),
     Act("Move", <<Some(PointA), Some("h0")>>, Some(Ranges(None, Some(F(200))))),
     Act("Move", <<Some(PointA), None>>, Some(Ranges(None, Some(F(200))))),
     Act("Move", <<Some(PointA), None>>, Some(Ranges(Some(F(0)), None))),
     Act("Move", <<Some(PointA), None>>, Some([NoParams EXCEPT !.range = Some(F(0)),
                                                               !.no_skip = Some(F(0))])),
     Act("Move", <<None, Some("h0")>>, Some(Ranges(Some(F(40)), Some(F(20))))),
     Act("Move", <<None, Some("h0")>>, Some(Ranges(Some(F(20)), Some(F(40))))),
     Act("Move", <<None, Some("gone")>>, Some(Ranges(Some(F(40)), None))),
     Act("Move", <<None, None>>, Some(Ranges(Some(F(0)), None))),
     Act("Wait", <<None, None>>, Some([NoParams EXCEPT !.duration = Some(F(1) \div 4)])),
     Act("Wait", <<None, None>>, None),
     EmptyAction}
\* what is queued behind it
EngineQueues ==
    {<<>>,
     <<Act("Wait", <<None, None>>, Some([NoParams EXCEPT !.duration = Some(F(1) \div 4)]))>>,
     <<Act("Move", <<Some(PointA), None>>, Some(Ranges(Some(F(0)), None))),
       Act("Wait", <<None, None>>, None)>>}
\* how far to the right of the player's entity the other entity stands
EngineGaps == {0, F(10), F(19), F(19) + Scale \div 2, F(30),
               F(40) + Scale \div 2, F(41), F(60)}
\* the velocity the player's entity still has from earlier ticks
EngineVelocities == {<<0, 0>>, <<0, F(5)>>}
\* the other entity idles, or walks off as the Path Follower would have it
EngineWalks ==
    {NewNerve,
     [NewNerve EXCEPT !.current_action =
         Act("Move", <<Some(<<F(200), F(100)>>), None>>,
             Some(Ranges(Some(F(10)), None)))]}

EngineInit ==
    /\ \E gap \in EngineGaps :
         position = [e \in Ents |-> IF e = "p0" THEN <<F(100), F(100)>>
                                                ELSE <<F(100) + gap, F(100)>>]
    /\ \E v \in EngineVelocities :
         velocity = [e \in Ents |-> IF e = "p0" THEN v ELSE <<0, 0>>]
    /\ \E a \in EngineActions, q \in EngineQueues, w \in EngineWalks :
         nerve = [e \in Ents |->
                    IF e = "p0" THEN [NewNerve EXCEPT !.current_action = a,
                                                      !.action_queue = q]
                    ELSE w]
    /\ controlled = [e \in CtrlEnts |-> NewControlled(SquadPos[e])]
    /\ animation_type = [e \in Ents |-> "Idle"]
    /\ panicked = None
    /\ pc = Pipeline[1]
    /\ clicks = 0
    /\ frames = 0
    /\ ran = "setup"
    /\ pathfinder = [e \in Ents |-> NewPathfinder]
    /\ waiting = 0
    /\ map = NewMap
    /\ schedule = Pipeline
    /\ before = Snapshot

EngineNext ==
    \/ move_system /\ frames < MaxFrames /\ frames' = frames + 1
    \/ move_controlled_system /\ UNCHANGED frames
    \/ NoClick /\ UNCHANGED frames
    \/ run_action_system /\ UNCHANGED frames

EngineSpec == EngineInit /\ [][EngineNext]_vars

\* ------------------------------------------------------- map systems ----
update_map_system ==
    /\ Starts("update_map_system")
    /\ IF UpdateMap(map, position).panic # None
       THEN panicked' = UpdateMap(map, position).panic /\ UNCHANGED map
       ELSE map' = UpdateMap(map, position).map /\ UNCHANGED panicked
    /\ UNCHANGED <<position, velocity, nerve, controlled, animation_type, clicks,
                   pathfinder, waiting>>

\* a loop that starts one below the count the resource holds
PathfoundOnCredit == PathfindFrom(1, map, pathfinder, waiting - 1, position)

\* what the loop of pathfind_system leaves
Pathfound == PathfindFrom(1, map, pathfinder, waiting, position)

pathfind_system ==
    /\ Starts("pathfind_system")
    /\ IF Pathfound.panic # None
       THEN /\ panicked' = Pathfound.panic
            /\ UNCHANGED <<pathfinder, waiting>>
       ELSE /\ pathfinder' = Pathfound.pathfinder
            /\ waiting' = BudgetLeft(Pathfound.waiting)
            /\ UNCHANGED panicked
    /\ UNCHANGED <<position, velocity, nerve, controlled, animation_type, clicks, map>>

\* what the loop body of follow_path_system leaves for every entity
Followed ==
    [e \in DOMAIN pathfinder |-> FollowPath(pathfinder[e], nerve[e], position[e])]

follow_path_system ==
    /\ Starts("follow_path_system")
    /\ IF \E e \in DOMAIN pathfinder : Followed[e].panic # None
       THEN /\ panicked' =
                   Followed[CHOOSE e \in DOMAIN pathfinder : Followed[e].panic # None].panic
            /\ UNCHANGED <<pathfinder, nerve>>
       ELSE /\ pathfinder' = [e \in DOMAIN pathfinder |-> Followed[e].pathfinder]
            /\ nerve' = [e \in DOMAIN nerve |-> Followed[e].nerve]
            /\ UNCHANGED panicked
    /\ UNCHANGED <<position, velocity, controlled, animation_type, clicks, waiting, map>>

\* the deviations (rand_x, rand_y) the generator yields in a run
LoiterOffsets == {<<0, 0>>, <<F(12), 0>>, <<-F(9), F(14)>>, <<F(25), F(3)>>}

simple_idle_system ==
    /\ Starts("simple_idle_system")
    /\ \E rand \in [DOMAIN pathfinder -> LoiterOffsets] :
         pathfinder' = [e \in DOMAIN pathfinder |->
                           Idle(pathfinder[e], nerve[e], position[e], rand[e])]
    /\ UNCHANGED <<position, velocity, nerve, controlled, animation_type, panicked,
                   clicks, waiting, map>>

\* ----------------------------------- the whole frame of a loitering entity
\* the hostiles: Behaviour, Nerve and Pathfinder, no Controlled
Walkers == 1..NumWalkers
\* where add_hostiles puts them
HostileStart(e) == IF e = 1 THEN <<F(200), F(400)>> ELSE <<F(400), F(200)>>
\* the systems of a frame in the order the plugins register them
FramePipeline ==
    <<"update_map_system", "pathfind_system", "follow_path_system", "move_system",
      "move_controlled_system", "player_control_system", "run_action_system",
      "simple_idle_system">>

PathInit ==
    /\ position = [e \in Walkers |-> HostileStart(e)]
    /\ velocity = [e \in Walkers |-> <<0, 0>>]
    /\ nerve = [e \in Walkers |-> NewNerve]
    /\ controlled = [e \in {} |-> NewControlled(0)]
    /\ animation_type = [e \in Walkers |-> "Idle"]
    /\ panicked = None
    /\ pc = FramePipeline[1]
    /\ clicks = 0
    /\ frames = 0
    /\ ran = "setup"
    /\ pathfinder = [e \in Walkers |-> NewPathfinder]
    /\ waiting = 0
    /\ map = NewMap
    /\ schedule = FramePipeline
    /\ before = Snapshot

PathNext ==
    \/ update_map_system /\ frames < MaxFrames /\ frames' = frames + 1
    \/ pathfind_system /\ UNCHANGED frames
    \/ follow_path_system /\ UNCHANGED frames
    \/ move_system /\ UNCHANGED frames
    \/ move_controlled_system /\ UNCHANGED frames
    \/ NoClick /\ UNCHANGED frames
    \/ run_action_system /\ UNCHANGED frames
    \/ simple_idle_system /\ UNCHANGED frames

PathSpec == PathInit /\ [][PathNext]_vars

\* ------------------------------- the map plugin with its budget exceeded
\* more entities with a Pathfinder than one tick serves
Requesters == 1..(MAX_PATHFINDERS + Surplus)
\* they stand in a row, one tile each
RequesterPos(e) == <<F(5 + TILE_SIZE * e), F(5)>>
\* a Pathfinder whose last path has been walked to its end
Arrived(e) ==
    [NewPathfinder EXCEPT
        !.path_ready = TRUE,
        !.path_start = from_coords(RequesterPos(e)),
        !.path_goal = from_coords(RequesterPos(e)),
        !.real_goal = RequesterPos(e),
        !.tile_path = <<from_coords(RequesterPos(e)), from_coords(RequesterPos(e))>>,
        !.path = <<to_coords(from_coords(RequesterPos(e))), RequesterPos(e)>>,
        !.path_index = 2]
\* the same with a request for a path to the next tile
Requesting(e) ==
    [Arrived(e) EXCEPT
        !.needs_pathfinding = TRUE,
        !.path_goal = from_coords(Vec2Add(RequesterPos(e), <<F(TILE_SIZE), F(1)>>)),
        !.real_goal = Vec2Add(RequesterPos(e), <<F(TILE_SIZE), F(1)>>)]
\* the systems of MapPlugin
MapPipeline == <<"update_map_system", "pathfind_system", "follow_path_system">>

BudgetInit ==
    /\ position = [e \in Requesters |-> RequesterPos(e)]
    /\ velocity = [e \in Requesters |-> <<0, 0>>]
    /\ nerve = [e \in Requesters |-> NewNerve]
    /\ controlled = [e \in {} |-> NewControlled(0)]
    /\ animation_type = [e \in Requesters |-> "Idle"]
    /\ panicked = None
    /\ pc = MapPipeline[1]
    /\ clicks = 0
    /\ frames = 0
    /\ ran = "setup"
    /\ \E asking \in SUBSET Requesters :
         pathfinder = [e \in Requesters |->
                          IF e \in asking THEN Requesting(e) ELSE Arrived(e)]
    /\ waiting = 0
    /\ map = NewMap
    /\ schedule = MapPipeline
    /\ before = Snapshot

BudgetNext ==
    \/ update_map_system /\ UNCHANGED frames
    \/ pathfind_system /\ UNCHANGED frames
    \/ follow_path_system /\ UNCHANGED frames

BudgetSpec == BudgetInit /\ [][BudgetNext]_vars

\* ------------------------------------ the map plugin on any coordinates
\* where the one Person of the run stands: on the map, left of it, above it,
\* on its right edge, to the right of it, below it
TilePoints ==
    {<<F(5), F(5)>>, <<F(400), F(200)>>, <<F(795), F(445)>>,
     <<-F(5), F(5)>>, <<F(5), -F(5)>>,
     <<F(800), F(5)>>, <<F(805), F(5)>>, <<F(805), F(445)>>, <<F(5), F(455)>>}
\* a Pathfinder as simple_idle_system leaves it, asking for a path to `goal`;
\* in TileInit the goal is the loiter coordinate that system computes
AskingFor(goal) ==
    [NewPathfinder EXCEPT !.needs_pathfinding = TRUE,
                          !.path_goal = from_coords(goal),
                          !.real_goal = goal]

TileInit ==
    /\ \E p \in TilePoints : position = [e \in {1} |-> p]
    /\ velocity = [e \in {1} |-> <<0, 0>>]
    /\ nerve = [e \in {1} |-> NewNerve]
    /\ controlled = [e \in {} |-> NewControlled(0)]
    /\ animation_type = [e \in {1} |-> "Idle"]
    /\ panicked = None
    /\ pc = MapPipeline[1]
    /\ clicks = 0
    /\ frames = 0
    /\ ran = "setup"
    /\ \E pf \in {NewPathfinder}
                  \cup {AskingFor(Loiter(position[1], rand)) : rand \in LoiterOffsets} :
         pathfinder = [e \in {1} |-> pf]
    /\ waiting = 0
    /\ map = NewMap
    /\ schedule = MapPipeline
    /\ before = Snapshot

TileNext ==
    \/ update_map_system /\ frames < MaxFrames /\ frames' = frames + 1
    \/ pathfind_system /\ UNCHANGED frames
    \/ follow_path_system /\ UNCHANGED frames

TileSpec == TileInit /\ [][TileNext]_vars

\* ------------------------------------------------ the search on any map
\* the tiles that weigh more than the others on the maps searched
HeavyTiles == {{}, {<<1, 1>>}, {<<1, 0>>, <<1, 1>>, <<1, 2>>}}
\* a MapData with weight 3.0 on the heavy tiles and `w` on the others
MapOf(heavy, w) ==
    [data |-> [i \in TileIndices |->
                  IF i \in {TileIndex(t) : t \in heavy} THEN F(3) ELSE w],
     occupied |-> {}]
\* the tiles the search starts from and the goals it is given
SearchStarts == {<<0, 0>>, <<0, 1>>, <<3, 3>>, <<7, 2>>}
SearchGoals ==
    {<<F(55), F(55)>>, <<F(52), F(58)>>, <<F(25), F(5)>>, <<F(25), F(12)>>,
     <<F(5), F(35)>>, <<F(30), F(30)>>}
\* the search and the follower, without the map update that would rewrite
\* the weights
SearchPipeline == <<"pathfind_system", "follow_path_system">>

SearchInit ==
    /\ \E t \in SearchStarts : position = [e \in {1} |-> to_coords(t)]
    /\ velocity = [e \in {1} |-> <<0, 0>>]
    /\ nerve = [e \in {1} |-> NewNerve]
    /\ controlled = [e \in {} |-> NewControlled(0)]
    /\ animation_type = [e \in {1} |-> "Idle"]
    /\ panicked = None
    /\ pc = SearchPipeline[1]
    /\ clicks = 0
    /\ frames = 0
    /\ ran = "setup"
    /\ \E g \in SearchGoals : pathfinder = [e \in {1} |-> AskingFor(g)]
    /\ waiting = 0
    /\ \E heavy \in HeavyTiles, w \in {F(1), F(2)} : map = MapOf(heavy, w)
    /\ schedule = SearchPipeline
    /\ before = Snapshot

SearchNext ==
    \/ pathfind_system /\ frames < MaxFrames /\ frames' = frames + 1
    \/ follow_path_system /\ UNCHANGED frames

SearchSpec == SearchInit /\ [][SearchNext]_vars

\* ------------------------------- a crowd that loiters on the spot
\* two full budgets of loitering entities and one more, in the order the
\* queries iterate them
Crowd == 1..(2 * MAX_PATHFINDERS + 1)
\* they stand in a row, one tile each
CrowdPos(e) == <<F(5 + TILE_SIZE * e), F(105)>>
\* the deviations of a run in which the generator yields small numbers: the
\* loiter coordinate stays in the entity's tile
StillOffsets == {<<0, 0>>, <<F(2), F(1)>>}

\* simple_idle_system in a tick where every draw of the generator gives the
\* same pair, one of `offsets`
idle_evenly(offsets) ==
    /\ Starts("simple_idle_system")
    /\ \E rand \in offsets :
         pathfinder' = [e \in DOMAIN pathfinder |->
                           Idle(pathfinder[e], nerve[e], position[e], rand)]
    /\ UNCHANGED <<position, velocity, nerve, controlled, animation_type, panicked,
                   clicks, waiting, map>>

simple_idle_system_evenly == idle_evenly(StillOffsets)

CrowdInit ==
    /\ position = [e \in Crowd |-> CrowdPos(e)]
    /\ velocity = [e \in Crowd |-> <<0, 0>>]
    /\ nerve = [e \in Crowd |-> NewNerve]
    /\ controlled = [e \in {} |-> NewControlled(0)]
    /\ animation_type = [e \in Crowd |-> "Idle"]
    /\ panicked = None
    /\ pc = FramePipeline[1]
    /\ clicks = 0
    /\ frames = 0
    /\ ran = "setup"
    /\ pathfinder = [e \in Crowd |-> NewPathfinder]
    /\ waiting = 0
    /\ map = NewMap
    /\ schedule = FramePipeline
    /\ before = Snapshot

CrowdNext ==
    \/ update_map_system /\ UNCHANGED frames
    \/ pathfind_system /\ UNCHANGED frames
    \/ follow_path_system /\ UNCHANGED frames
    \/ move_system /\ UNCHANGED frames
    \/ move_controlled_system /\ UNCHANGED frames
    \/ NoClick /\ UNCHANGED frames
    \/ run_action_system /\ UNCHANGED frames
    \/ simple_idle_system_evenly /\ UNCHANGED frames

\* the frames follow one another without end
CrowdSpec == CrowdInit /\ [][CrowdNext]_vars /\ WF_pc(Turn)

\* ------------------------------------ commands to an entity that waits
\* the Nerve of the player's entity when the run is taken up: a Wait is
\* current, its timer not yet created, with or without a Wait behind it
WaitingNerves ==
    {[NewNerve EXCEPT !.current_action = a, !.action_queue = q] :
        a \in {Act("Wait", <<None, None>>,
                   Some([NoParams EXCEPT !.duration = Some(F(1) \div 4)]))},
        q \in {<<>>,
               <<Act("Wait", <<None, None>>,
                     Some([NoParams EXCEPT !.duration = Some(F(1) \div 2)]))>>}}

WaitingInit ==
    /\ position = StartPos
    /\ velocity = [e \in Ents |-> <<0, 0>>]
    /\ \E w \in WaitingNerves :
         nerve = [e \in Ents |-> IF e = "p0" THEN w ELSE NewNerve]
    /\ controlled = [e \in CtrlEnts |-> NewControlled(SquadPos[e])]
    /\ animation_type = [e \in Ents |-> "Idle"]
    /\ panicked = None
    /\ pc = Pipeline[1]
    /\ clicks = 0
    /\ frames = 0
    /\ ran = "setup"
    /\ pathfinder = [e \in Ents |-> NewPathfinder]
    /\ waiting = 0
    /\ map = NewMap
    /\ schedule = Pipeline
    /\ before = Snapshot

\* the frame of Spec: integrator, decomposer, order dispatch, engine
WaitingNext ==
    \/ move_system /\ UNCHANGED frames
    \/ move_controlled_system /\ UNCHANGED frames
    \/ player_control_system /\ UNCHANGED frames
    \/ run_action_system /\ UNCHANGED frames

WaitingSpec == WaitingInit /\ [][WaitingNext]_vars

\* ------------------------------- a crowd whose entities walk and stand
\* one entity more than a tick serves, in the order the queries iterate them
Rush == 1..(MAX_PATHFINDERS + 1)
\* the deviations of the run: on the spot, or a walk into the next tile
RushOffsets == {<<0, 0>>, <<F(12), 0>>}

RushInit ==
    /\ position = [e \in Rush |-> CrowdPos(e)]
    /\ velocity = [e \in Rush |-> <<0, 0>>]
    /\ nerve = [e \in Rush |-> NewNerve]
    /\ controlled = [e \in {} |-> NewControlled(0)]
    /\ animation_type = [e \in Rush |-> "Idle"]
    /\ panicked = None
    /\ pc = FramePipeline[1]
    /\ clicks = 0
    /\ frames = 0
    /\ ran = "setup"
    /\ pathfinder = [e \in Rush |-> NewPathfinder]
    /\ waiting = 0
    /\ map = NewMap
    /\ schedule = FramePipeline
    /\ before = Snapshot

RushNext ==
    \/ update_map_system /\ frames < MaxFrames /\ frames' = frames + 1
    \/ pathfind_system /\ UNCHANGED frames
    \/ follow_path_system /\ UNCHANGED frames
    \/ move_system /\ UNCHANGED frames
    \/ move_controlled_system /\ UNCHANGED frames
    \/ NoClick /\ UNCHANGED frames
    \/ run_action_system /\ UNCHANGED frames
    \/ idle_evenly(RushOffsets) /\ UNCHANGED frames

RushSpec == RushInit /\ [][RushNext]_vars

\* ------------------------- a crowd with a squadmate the player commands
\* a click in the open (no entity under the cursor): the Command goes to
\* every Controlled whose squad index the held keys select
OpenClick(mouse, keys) ==
    /\ Starts("player_control_system")
    /\ clicks < MaxCommands
    /\ clicks' = clicks + 1
    /\ controlled' = [e \in DOMAIN controlled |->
                        IF controlled[e].squad_pos \in SquadControl(keys)
                        THEN [controlled[e] EXCEPT !.current_command =
                                  CommandOf(None, mouse, keys)]
                        ELSE controlled[e]]
    /\ UNCHANGED <<position, velocity, nerve, animation_type, panicked>>
    /\ UNCHANGED mapvars

\* the first squadmate (Controlled::new(1), Behaviour, Pathfinder), the last
\* entity the queries reach
Squadmate == MAX_PATHFINDERS + 1
\* where the player sends the squadmate: open ground two tiles off its post
SquadPoint == <<CrowdPos(Squadmate)[1] + F(30), CrowdPos(Squadmate)[2] + F(40)>>
\* the point the player has the squadmate flee: two tiles below its post,
\* the top border of the map 105 units above it
FleePoint == <<CrowdPos(Squadmate)[1], CrowdPos(Squadmate)[2] + F(20)>>

SquadInit ==
    /\ position = [e \in Rush |-> CrowdPos(e)]
    /\ velocity = [e \in Rush |-> <<0, 0>>]
    /\ nerve = [e \in Rush |-> NewNerve]
    /\ controlled = [e \in {Squadmate} |-> NewControlled(1)]
    /\ animation_type = [e \in Rush |-> "Idle"]
    /\ panicked = None
    /\ pc = FramePipeline[1]
    /\ clicks = 0
    /\ frames = 0
    /\ ran = "setup"
    /\ pathfinder = [e \in Rush |-> NewPathfinder]
    /\ waiting = 0
    /\ map = NewMap
    /\ schedule = FramePipeline
    /\ before = Snapshot

SquadNext ==
    \/ update_map_system /\ frames < MaxFrames /\ frames' = frames + 1
    \/ pathfind_system /\ UNCHANGED frames
    \/ follow_path_system /\ UNCHANGED frames
    \/ move_system /\ UNCHANGED frames
    \/ move_controlled_system /\ UNCHANGED frames
    \/ NoClick /\ UNCHANGED frames
    \/ OpenClick(SquadPoint, {"Key1"}) /\ UNCHANGED frames
    \/ OpenClick(FleePoint, {"Key1", "LShift"}) /\ UNCHANGED frames
    \/ run_action_system /\ UNCHANGED frames
    \/ idle_evenly(RushOffsets) /\ UNCHANGED frames

SquadSpec == SquadInit /\ [][SquadNext]_vars

\* ------------------------------------------------------------- claims ----
Orders == {"Move", "Attack", "Flee", "Follow"}
\* the command the decomposer found on entity e when it last ran
FoundCommand(e) == before.controlled[e].current_command
\* the actions of a Nerve that are not Empty, current slot and queue together
NonEmptyActions(n) ==
    Cardinality({i \in 1..Len(n.action_queue) : n.action_queue[i].action_type # "Empty"})
    + (IF n.current_action.action_type # "Empty" THEN 1 ELSE 0)
\* a params map with exactly the given entries
ParamsOf(range, min_range, no_skip) ==
    Some([range |-> range, min_range |-> min_range, no_skip |-> no_skip,
          duration |-> None])

\* C1: after the decomposer has run on a Move, Attack, Flee or Follow
\* command, the current action is Empty and the action queue holds exactly
\* the actions of that command, whatever the Nerve held before; after a Move
\* command the Nerve holds exactly one action that is not Empty.
C1_DecomposeReplacesNerve ==
    ran = "move_controlled_system" =>
        \A e \in CtrlEnts :
            FoundCommand(e).command_type \in Orders =>
                /\ nerve[e].current_action = EmptyAction
                /\ nerve[e].action_queue = CommandActions(FoundCommand(e))
                /\ nerve[e].action_queue # <<>>
                /\ FoundCommand(e).command_type = "Move" =>
                       /\ NonEmptyActions(nerve[e]) = 1
                       /\ nerve[e].action_queue[1].action_type = "Move"
                       /\ nerve[e].action_queue[1].target[1] = FoundCommand(e).target_point

\* a Move command is decomposed while the Move of an Attack command is
\* current and its Attack is still queued
C1_Witness ==
    /\ ran = "move_controlled_system"
    /\ FoundCommand("p0").command_type = "Move"
    /\ before.nerve["p0"].current_action.action_type = "Move"
    /\ Len(before.nerve["p0"].action_queue) = 1
    /\ before.nerve["p0"].action_queue[1].action_type = "Attack"
    /\ NonEmptyActions(nerve["p0"]) = 1

\* C2: the queue the decomposer leaves is, by command kind: Move -> one Move
\* to target_point with range 0; Attack -> a Move then an Attack, both at
\* target_id with range 40 and min_range 20; Flee -> one Move at
\* (target_point, target_id) with min_range 200 and no range; Follow -> one
\* Move at target_id with range 40 and no_skip 1.
C2_QueuePerCommandKind ==
    ran = "move_controlled_system" =>
        \A e \in CtrlEnts :
            LET c == FoundCommand(e)
                q == nerve[e].action_queue
            IN /\ c.command_type = "Move" =>
                     q = <<[action_type |-> "Move",
                            target |-> <<c.target_point, None>>,
                            params |-> ParamsOf(Some(F(0)), None, None)]>>
               /\ c.command_type = "Attack" =>
                     q = <<[action_type |-> "Move",
                            target |-> <<None, c.target_id>>,
                            params |-> ParamsOf(Some(F(40)), Some(F(20)), None)],
                           [action_type |-> "Attack",
                            target |-> <<None, c.target_id>>,
                            params |-> ParamsOf(Some(F(40)), Some(F(20)), None)]>>
               /\ c.command_type = "Flee" =>
                     q = <<[action_type |-> "Move",
                            target |-> <<c.target_point, c.target_id>>,
                            params |-> ParamsOf(None, Some(F(200)), None)]>>
               /\ c.command_type = "Follow" =>
                     q = <<[action_type |-> "Move",
                            target |-> <<None, c.target_id>>,
                            params |-> ParamsOf(Some(F(40)), None, Some(F(1)))]>>

\* an Attack command on the other entity has just been decomposed
C2_Witness ==
    /\ ran = "move_controlled_system"
    /\ FoundCommand("p0").command_type = "Attack"
    /\ FoundCommand("p0").target_id = Some("h0")
    /\ Len(nerve["p0"].action_queue) = 2

\* the action entity e was executing when the engine last ran, its Nerve then
FoundAction(e) == before.nerve[e].current_action
FoundNerve(e) == before.nerve[e]
\* the engine ran last and ran to its end
EngineRan == ran = "run_action_system" /\ panicked = None
\* the params entry of an action, as an Option
Param(a, key) == IF a.params = None THEN None ELSE Unwrap(a.params)[key]
\* where the target of action a was when the engine ran: the entity named by
\* the id, else the literal point
TargetBefore(a) ==
    IF a.target[2] # None
    THEN (IF Unwrap(a.target[2]) \in Ents THEN before.position[Unwrap(a.target[2])]
                                          ELSE <<NaN, NaN>>)
    ELSE IF a.target[1] # None THEN Unwrap(a.target[1]) ELSE <<NaN, NaN>>
\* the distance from entity e to the target of its action when the engine ran
DistBefore(e) == Length(Vec2Sub(TargetBefore(FoundAction(e)), before.position[e]))
\* the Nerve with the front of the queue promoted to the current slot
Promoted(n) ==
    IF Len(n.action_queue) > 0
    THEN [current_action |-> n.action_queue[1],
          action_queue |-> SubSeq(n.action_queue, 2, Len(n.action_queue)),
          action_timer |-> n.action_timer]
    ELSE [current_action |-> EmptyAction, action_queue |-> <<>>,
          action_timer |-> n.action_timer]
\* both components of a velocity are below 1 in magnitude
Slow(v) == /\ v[1] # NaN /\ v[1] < F(1) /\ -v[1] < F(1)
           /\ v[2] # NaN /\ v[2] < F(1) /\ -v[2] < F(1)
\* an action targets the entity that executes it
SelfTargeted(e, a) == a.target[2] = Some(e)
\* no_skip is present and positive
NoSkip(a) == Param(a, "no_skip") # None /\ Unwrap(Param(a, "no_skip")) > 0
\* an Attack of e with its target alive
LiveAttack(e) ==
    /\ FoundAction(e).action_type = "Attack"
    /\ FoundAction(e).target[2] # None
    /\ Unwrap(FoundAction(e).target[2]) \in Ents
    /\ DistBefore(e) # NaN
\* a bound is present and the distance is at least 1 beyond it
BeyondRange(e) ==
    /\ Param(FoundAction(e), "range") # None
    /\ DistBefore(e) >= Unwrap(Param(FoundAction(e), "range")) + F(1)
WithinMinRange(e) ==
    /\ Param(FoundAction(e), "min_range") # None
    /\ DistBefore(e) <= Unwrap(Param(FoundAction(e), "min_range")) - F(1)
\* min_range > range
Misconfigured(a) ==
    /\ Param(a, "range") # None /\ Param(a, "min_range") # None
    /\ Unwrap(Param(a, "min_range")) > Unwrap(Param(a, "range"))
\* the Nerve after a re-queue of Move + Attack for Attack a
Requeued(e, a) ==
    /\ nerve[e].current_action =
           [action_type |-> "Move", target |-> a.target, params |-> a.params]
    /\ nerve[e].action_queue = <<a>>

\* C3: an engine tick on an Attack with range R and min_range M, M < R,
\* whose distance d to the target satisfies M - 1 < d < R + 1 leaves the
\* current action and the action queue as they were.
C3_InBandAttackHolds ==
    ran = "run_action_system" =>
        \A e \in Ents :
            ( /\ LiveAttack(e)
              /\ Param(FoundAction(e), "range") # None
              /\ Param(FoundAction(e), "min_range") # None
              /\ Unwrap(Param(FoundAction(e), "min_range"))
                     < Unwrap(Param(FoundAction(e), "range"))
              /\ ~BeyondRange(e)
              /\ ~WithinMinRange(e) )
            => /\ nerve[e].current_action = FoundAction(e)
               /\ nerve[e].action_queue = FoundNerve(e).action_queue

\* an Attack ticked with an empty queue while its target is beyond the range
\* by less than 1
C3_Witness ==
    /\ EngineRan
    /\ LiveAttack("p0")
    /\ Param(FoundAction("p0"), "range") = Some(F(40))
    /\ Param(FoundAction("p0"), "min_range") = Some(F(20))
    /\ DistBefore("p0") > F(40)
    /\ DistBefore("p0") < F(41)
    /\ FoundNerve("p0").action_queue = <<>>
    /\ nerve["p0"].current_action = FoundAction("p0")

\* C4: an engine tick on an Attack whose target is out of band (at least 1
\* beyond range, or at least 1 inside min_range, for whichever of the two it
\* carries) and whose queue is empty ends with a Move of the same target and
\* params current and exactly that Attack queued.
C4_OutOfBandRequeues ==
    EngineRan =>
        \A e \in Ents :
            ( /\ LiveAttack(e)
              /\ ~Misconfigured(FoundAction(e))
              /\ BeyondRange(e) \/ WithinMinRange(e)
              /\ FoundNerve(e).action_queue = <<>> )
            => Requeued(e, FoundAction(e))

\* C5: an Attack that carries min_range and no range, ticked with an empty
\* queue while the distance is more than 1 below min_range, is out of band:
\* the tick re-queues Move + Attack.
C5_MinRangeAloneIsTested ==
    EngineRan =>
        \A e \in Ents :
            ( /\ LiveAttack(e)
              /\ Param(FoundAction(e), "range") = None
              /\ Param(FoundAction(e), "min_range") # None
              /\ DistBefore(e) < Unwrap(Param(FoundAction(e), "min_range")) - F(1)
              /\ FoundNerve(e).action_queue = <<>> )
            => Requeued(e, FoundAction(e))

\* C6 as claimed: the engine never pops a Move whose no_skip is positive.
C6_NoSkipNeverPopped ==
    ran = "run_action_system" =>
        \A e \in Ents :
            (FoundAction(e).action_type = "Move" /\ NoSkip(FoundAction(e)))
            => nerve[e].current_action = FoundAction(e)

\* C6: no system but the command decomposer replaces a current Move whose
\* no_skip is positive and whose target id is not the executing entity's own
\* id; in particular the engine leaves it current, and the queue behind it
\* untouched, also when both velocity components are below 1.
C6_NoSkipStaysUnlessSelfTargeted ==
    ran # "move_controlled_system" =>
        \A e \in Ents :
            ( /\ FoundAction(e).action_type = "Move"
              /\ NoSkip(FoundAction(e))
              /\ ~SelfTargeted(e, FoundAction(e)) )
            => /\ nerve[e].current_action = FoundAction(e)
               /\ nerve[e].action_queue = FoundNerve(e).action_queue

\* a Follow's Move is ticked at rest inside its range and stays current
C6_Witness ==
    /\ EngineRan
    /\ FoundAction("p0").action_type = "Move"
    /\ NoSkip(FoundAction("p0"))
    /\ FoundAction("p0").target[2] = Some("h0")
    /\ DistBefore("p0") <= F(41)
    /\ Slow(before.velocity["p0"])
    /\ Slow(velocity["p0"])
    /\ nerve["p0"].current_action = FoundAction("p0")

\* C7 as claimed: a Move is popped by an engine tick exactly when, after the
\* tick's velocity update, both components are below 1 and no_skip is absent
\* or not positive.
C7_MovePoppedIffAtRest ==
    EngineRan =>
        \A e \in Ents :
            FoundAction(e).action_type = "Move" =>
                IF Slow(velocity[e]) /\ ~NoSkip(FoundAction(e))
                THEN nerve[e] = Promoted(FoundNerve(e))
                ELSE nerve[e] = FoundNerve(e)

\* C7: a Move whose target id is not the executing entity's own id is popped
\* by an engine tick (the queue front, or Empty, becomes current) exactly
\* when, after the tick's velocity update, both velocity components are below
\* 1 and no_skip is absent or not positive; otherwise the Nerve is unchanged.
C7_OtherTargetMovePoppedIffAtRest ==
    EngineRan =>
        \A e \in Ents :
            (FoundAction(e).action_type = "Move" /\ ~SelfTargeted(e, FoundAction(e)))
            => IF Slow(velocity[e]) /\ ~NoSkip(FoundAction(e))
               THEN nerve[e] = Promoted(FoundNerve(e))
               ELSE nerve[e] = FoundNerve(e)

\* the Move of an Attack command comes to rest and its Attack is promoted
C7_Witness ==
    /\ EngineRan
    /\ FoundAction("p0").action_type = "Move"
    /\ FoundAction("p0").target[2] = Some("h0")
    /\ Slow(velocity["p0"])
    /\ velocity["p0"] # <<0, 0>>
    /\ nerve["p0"].current_action.action_type = "Attack"
    /\ nerve["p0"].action_queue = <<>>

\* C8: an engine tick on a Move with its target resolved at distance d
\* leaves the velocity as it was unless min_range is present and d <
\* min_range, or range is present and d > range.
C8_DeadZoneKeepsVelocity ==
    EngineRan =>
        \A e \in Ents :
            ( /\ FoundAction(e).action_type = "Move"
              /\ DistBefore(e) # NaN
              /\ ~( /\ Param(FoundAction(e), "min_range") # None
                    /\ DistBefore(e) < Unwrap(Param(FoundAction(e), "min_range")) )
              /\ ~( /\ Param(FoundAction(e), "range") # None
                    /\ DistBefore(e) > Unwrap(Param(FoundAction(e), "range")) ) )
            => velocity[e] = before.velocity[e]

\* a moving entity is ticked between min_range and range of its target and
\* keeps its velocity
C8_Witness ==
    /\ EngineRan
    /\ FoundAction("p0").action_type = "Move"
    /\ Param(FoundAction("p0"), "range") = Some(F(40))
    /\ Param(FoundAction("p0"), "min_range") = Some(F(20))
    /\ DistBefore("p0") > F(20)
    /\ DistBefore("p0") < F(40)
    /\ before.velocity["p0"] = <<0, F(5)>>
    /\ velocity["p0"] = <<0, F(5)>>

\* C9: an engine tick on an Empty current action zeroes the velocity and
\* promotes the front of the queue, keeping the rest in order, or stays Empty
\* on an empty queue; so after the tick no queue sits behind an Empty action.
C9_EmptyTickPromotes ==
    EngineRan =>
        \A e \in Ents :
            FoundAction(e).action_type = "Empty" =>
                /\ velocity[e] = <<0, 0>>
                /\ nerve[e] = Promoted(FoundNerve(e))
                /\ FoundNerve(e).action_queue # <<>> =>
                       /\ nerve[e].current_action = Head(FoundNerve(e).action_queue)
                       /\ nerve[e].action_queue = Tail(FoundNerve(e).action_queue)
                /\ is_curr_action_empty(nerve[e]) => nerve[e].action_queue = <<>>

\* a moving entity with a freshly decomposed Attack command is ticked
C9_Witness ==
    /\ EngineRan
    /\ FoundAction("p0").action_type = "Empty"
    /\ Len(FoundNerve("p0").action_queue) = 2
    /\ before.velocity["p0"] # <<0, 0>>
    /\ velocity["p0"] = <<0, 0>>
    /\ nerve["p0"].current_action.action_type = "Move"
    /\ Len(nerve["p0"].action_queue) = 1

\* C10 as claimed: decomposing an Empty command leaves the action queue empty.
C10_EmptyCommandClearsQueue ==
    ran = "move_controlled_system" =>
        \A e \in CtrlEnts :
            FoundCommand(e).command_type = "Empty" => nerve[e].action_queue = <<>>

\* C10: decomposing an Empty command leaves the action queue as it was: no
\* action is removed and none is added.
C10_EmptyCommandKeepsQueue ==
    ran = "move_controlled_system" =>
        \A e \in CtrlEnts :
            FoundCommand(e).command_type = "Empty" =>
                nerve[e].action_queue = FoundNerve(e).action_queue

\* the decomposer runs on an Empty command while an Attack is still queued
C10_Witness ==
    /\ ran = "move_controlled_system"
    /\ FoundCommand("p0").command_type = "Empty"
    /\ Len(FoundNerve("p0").action_queue) = 1
    /\ FoundNerve("p0").action_queue[1].action_type = "Attack"
    /\ nerve["p0"].action_queue = FoundNerve("p0").action_queue

\* C11: running the decomposer on an entity whose current Command is Empty
\* and whose command queue is empty changes nothing: current_action, the
\* action queue and the action timer are as before, and the Command is still
\* Empty, also while an action is in flight.
C11_EmptyCommandIsNoOp ==
    ran = "move_controlled_system" =>
        \A e \in CtrlEnts :
            ( /\ FoundCommand(e).command_type = "Empty"
              /\ before.controlled[e].command_queue = <<>> )
            => /\ nerve[e].current_action = FoundAction(e)
               /\ nerve[e].action_queue = FoundNerve(e).action_queue
               /\ nerve[e].action_timer = FoundNerve(e).action_timer
               /\ controlled[e].current_command = EmptyCommand
               /\ controlled[e] = before.controlled[e]

\* the decomposer runs, no command issued, half way through a Wait that has
\* an action queued behind it
C11_Witness ==
    /\ ran = "move_controlled_system"
    /\ FoundCommand("p0").command_type = "Empty"
    /\ FoundAction("p0").action_type = "Wait"
    /\ FoundNerve("p0").action_timer # None
    /\ Unwrap(FoundNerve("p0").action_timer).elapsed > 0
    /\ FoundNerve("p0").action_queue # <<>>
    /\ nerve["p0"] = FoundNerve("p0")

\* C12: after every run of the decomposer the current Command is the former
\* front of the command queue, or Empty when that queue was empty; so when
\* Order Dispatch runs next the Command it finds is Empty, and a command it
\* issues is decomposed by one run of the decomposer only.
C12_CommandAdvances ==
    /\ ran = "move_controlled_system" =>
           \A e \in CtrlEnts :
               IF before.controlled[e].command_queue # <<>>
               THEN /\ controlled[e].current_command =
                           Head(before.controlled[e].command_queue)
                    /\ controlled[e].command_queue =
                           Tail(before.controlled[e].command_queue)
               ELSE /\ controlled[e].current_command = EmptyCommand
                    /\ controlled[e].command_queue = <<>>
    /\ pc = "player_control_system" =>
           \A e \in CtrlEnts : controlled[e].current_command = EmptyCommand

\* an Attack command has just been decomposed and is gone
C12_Witness ==
    /\ ran = "move_controlled_system"
    /\ FoundCommand("p0").command_type = "Attack"
    /\ Len(nerve["p0"].action_queue) = 2
    /\ controlled["p0"].current_command = EmptyCommand

FreshTimer(a) ==
    [elapsed |-> 0,
     duration |-> IF Param(a, "duration") # None THEN Unwrap(Param(a, "duration"))
                                                 ELSE F(1),
     finished |-> FALSE]

\* C19: an engine tick on a Wait with no timer present creates a one-shot
\* timer of the duration parameter (1.0 when absent), nothing elapsed, and
\* keeps the Wait; a tick with the timer present adds the frame delta, and
\* pops the Wait and clears the timer exactly when the time accumulated
\* reaches the duration; before that the Wait stays current.
C19_WaitRunsItsDuration ==
    EngineRan =>
        \A e \in Ents :
            FoundAction(e).action_type = "Wait" =>
                IF FoundNerve(e).action_timer = None
                THEN /\ nerve[e].action_timer = Some(FreshTimer(FoundAction(e)))
                     /\ nerve[e].current_action = FoundAction(e)
                     /\ nerve[e].action_queue = FoundNerve(e).action_queue
                ELSE LET timer == Unwrap(FoundNerve(e).action_timer)
                     IN IF timer.elapsed + F(1) \div FrameRate >= timer.duration
                        THEN /\ nerve[e].action_timer = None
                             /\ nerve[e].current_action =
                                    Promoted(FoundNerve(e)).current_action
                             /\ nerve[e].action_queue =
                                    Promoted(FoundNerve(e)).action_queue
                        ELSE /\ nerve[e].current_action = FoundAction(e)
                             /\ nerve[e].action_queue = FoundNerve(e).action_queue
                             /\ nerve[e].action_timer # None
                             /\ Unwrap(nerve[e].action_timer).elapsed =
                                    timer.elapsed + F(1) \div FrameRate
                             /\ Unwrap(nerve[e].action_timer).duration =
                                    timer.duration

\* a Wait whose timer has already run for a while expires and the action
\* queued behind it becomes current
C19_Witness ==
    /\ EngineRan
    /\ FoundAction("p0").action_type = "Wait"
    /\ FoundNerve("p0").action_timer # None
    /\ Unwrap(FoundNerve("p0").action_timer).elapsed > 0
    /\ FoundNerve("p0").action_queue # <<>>
    /\ nerve["p0"].action_timer = None
    /\ nerve["p0"].current_action = Head(FoundNerve("p0").action_queue)

\* C20: an engine tick that meets a Move whose target carries neither a
\* point nor an entity id panics: the tick does not complete, and the Move is
\* neither popped nor left to stall.
C20_UntargetedMovePanics ==
    ran = "run_action_system" =>
        \A e \in Ents :
            ( /\ FoundAction(e).action_type = "Move"
              /\ FoundAction(e).target = <<None, None>> )
            => /\ panicked # None
               /\ nerve = before.nerve
               /\ velocity = before.velocity

\* the engine has met a Move without a target and panicked on it
C20_Witness ==
    /\ ran = "run_action_system"
    /\ FoundAction("p0").action_type = "Move"
    /\ FoundAction("p0").target = <<None, None>>
    /\ panicked = Some("move action has no target")

\* the entity's Nerve was idle when the last system found it
WasIdle(e) ==
    FoundAction(e).action_type = "Empty" /\ FoundNerve(e).action_queue = <<>>
\* a Move to a point with the one parameter range = TILE_SIZE
StepMove(point) ==
    [action_type |-> "Move", target |-> <<Some(point), None>>,
     params |-> Some([range |-> Some(F(TILE_SIZE)), min_range |-> None,
                      no_skip |-> None, duration |-> None])]

\* C14: a run of the Path Follower changes the Nerve of an entity only if
\* it found current_action Empty and the action queue empty; every other
\* Nerve comes out as it went in.
C14_FollowerEnqueuesOnlyWhenIdle ==
    ran = "follow_path_system" =>
        \A e \in DOMAIN nerve : ~WasIdle(e) => nerve[e] = FoundNerve(e)

\* the Path Follower runs while the entity walks and steps of its path
\* remain, and enqueues nothing
C14_Witness ==
    /\ ran = "follow_path_system"
    /\ panicked = None
    /\ FoundAction(1).action_type = "Move"
    /\ pathfinder[1].path_index < Len(pathfinder[1].tile_path)
    /\ nerve[1] = FoundNerve(1)

\* C15: when the Path Follower changes a Nerve it appends to the queue one
\* Move per step of the path from the cursor to the end, in path order, each
\* with the point path[i] as target and {range: TILE_SIZE} as params, and
\* writes nothing else; path[i] is the centre of tile_path[i] but for the
\* last step, which is the real goal.
C15_FollowerEnqueuesRemainingSteps ==
    ran = "follow_path_system" =>
        \A e \in DOMAIN nerve :
            nerve[e] # FoundNerve(e) =>
                LET pf == pathfinder[e]
                    had == Len(FoundNerve(e).action_queue)
                    left == Len(pf.path) - pf.path_index
                IN /\ nerve[e].current_action = FoundAction(e)
                   /\ nerve[e].action_timer = FoundNerve(e).action_timer
                   /\ pf.path = before.pathfinder[e].path
                   /\ Len(pf.path) = Len(pf.tile_path)
                   /\ left > 0
                   /\ Len(nerve[e].action_queue) = had + left
                   /\ \A i \in 1..had :
                          nerve[e].action_queue[i] = FoundNerve(e).action_queue[i]
                   /\ \A i \in 1..left :
                          nerve[e].action_queue[had + i] =
                              StepMove(pf.path[pf.path_index + i])
                   /\ \A i \in 1..(Len(pf.path) - 1) :
                          pf.path[i] = to_coords(pf.tile_path[i])
                   /\ pf.path[Len(pf.path)] = pf.real_goal

\* the Path Follower, its cursor past the start tile, enqueues the other two
\* steps of a path of three
C15_Witness ==
    /\ ran = "follow_path_system"
    /\ FoundNerve(1).action_queue = <<>>
    /\ Len(pathfinder[1].path) = 3
    /\ pathfinder[1].path_index = 1
    /\ Len(nerve[1].action_queue) = 2
    /\ nerve[1].action_queue[2] = StepMove(pathfinder[1].real_goal)

\* the entities that asked for a path when the last system found them, and
\* those of them still asking
Asking == {e \in DOMAIN pathfinder : before.pathfinder[e].needs_pathfinding}
Deferred == {e \in Asking : pathfinder[e].needs_pathfinding}

\* C16: a run of pathfind_system that finds more than MAX_PATHFINDERS
\* entities asking for a path computes a path for exactly MAX_PATHFINDERS of
\* them (needs_pathfinding cleared, cursor 0, a path from the entity's tile to
\* its goal) and leaves the Pathfinder of every other entity, still asking,
\* as it was.
C16_BudgetServesExactlyMax ==
    (ran = "pathfind_system" /\ panicked = None
        /\ Cardinality(Asking) > MAX_PATHFINDERS) =>
            /\ Cardinality(Asking \ Deferred) = MAX_PATHFINDERS
            /\ \A e \in Asking \ Deferred :
                   /\ pathfinder[e].path_index = 0
                   /\ pathfinder[e].tile_path[1] = from_coords(position[e])
                   /\ pathfinder[e].path[Len(pathfinder[e].path)] =
                          before.pathfinder[e].real_goal
                   /\ pathfinder[e].path # before.pathfinder[e].path
            /\ \A e \in DOMAIN pathfinder \ (Asking \ Deferred) :
                   pathfinder[e] = before.pathfinder[e]

\* every entity asked, and the surplus is left asking
C16_Witness ==
    /\ ran = "pathfind_system"
    /\ panicked = None
    /\ Asking = DOMAIN pathfinder
    /\ Cardinality(Asking) = MAX_PATHFINDERS + Surplus
    /\ Cardinality(Deferred) = Surplus

\* C17: whenever pathfind_system is about to run, the budget counter is 0,
\* whatever number of requests its last run served.
C17_BudgetStartsAtZero ==
    pc = "pathfind_system" => waiting = 0

\* pathfind_system is about to run a second time, its first run having used
\* the whole budget and left requests behind
C17_Witness ==
    /\ pc = "pathfind_system"
    /\ waiting = 0
    /\ Cardinality({e \in DOMAIN pathfinder :
                       pathfinder[e].path # Arrived(e).path}) = MAX_PATHFINDERS
    /\ \E e \in DOMAIN pathfinder : pathfinder[e].needs_pathfinding

\* C18: after the map update of a tick the tiles flagged occupied are
\* exactly the tiles in which a Person stands.
C18_OccupancyIsCurrent ==
    (ran = "update_map_system" /\ panicked = None) =>
        map.occupied = {TileIndex(from_coords(position[e])) : e \in DOMAIN position}

\* C21: a run of the engine that finds a Move or an Attack with range and
\* min_range both present and min_range > range panics; no velocity is
\* written and no Nerve is re-queued.
C21_InvalidRangesPanic ==
    ran = "run_action_system" =>
        \A e \in DOMAIN nerve :
            (FoundAction(e).action_type \in {"Move", "Attack"}
                /\ Misconfigured(FoundAction(e))) =>
                /\ panicked # None
                /\ velocity = before.velocity
                /\ nerve = before.nerve

\* the engine has met an Attack with range 20 and min_range 40
C21_Witness ==
    /\ ran = "run_action_system"
    /\ FoundAction("p0").action_type = "Attack"
    /\ Misconfigured(FoundAction("p0"))
    /\ FoundAction("p0").target[2] # None
    /\ panicked = Some("min_range > range")

\* a Move whose target has a literal point and the id of an entity in the world
DualTargeted(a) ==
    /\ a.action_type = "Move"
    /\ a.target[1] # None
    /\ a.target[2] # None
    /\ Unwrap(a.target[2]) \in DOMAIN before.position
\* the velocity a Move tick of e leaves when its target stands at `target`
VelocityFor(e, target) ==
    LET a == FoundAction(e)
        pos == before.position[e]
        tv == Vec2Sub(target, pos)
        dist == Length(tv)
        range == Param(a, "range")
        min_range == Param(a, "min_range")
    IN IF range # None /\ Gt(dist, Unwrap(range))
       THEN get_straightline_velocity(EdgePoint(tv, dist, Unwrap(range), pos), pos)
       ELSE IF min_range # None /\ Lt(dist, Unwrap(min_range))
       THEN get_straightline_velocity(EdgePoint(tv, dist, Unwrap(min_range), pos), pos)
       ELSE before.velocity[e]

\* C22: a tick of a Move whose target carries both a point and the id of an
\* entity in the world steers by the position that entity has in that tick,
\* not by the point.
C22_DualTargetPrefersEntity ==
    EngineRan =>
        \A e \in DOMAIN nerve :
            DualTargeted(FoundAction(e)) =>
                velocity[e] =
                    VelocityFor(e, before.position[Unwrap(FoundAction(e).target[2])])

\* the targeted entity is walking, and the point would have given another
\* velocity
C22_Witness ==
    /\ EngineRan
    /\ DualTargeted(FoundAction("p0"))
    /\ FoundAction("p0").target[2] = Some("h0")
    /\ frames >= 2
    /\ before.velocity["h0"] # <<0, 0>>
    /\ velocity["p0"] # VelocityFor("p0", Unwrap(FoundAction("p0").target[1]))
    /\ velocity["p0"] # before.velocity["p0"]

\* the last run of pathfind_system computed a path for e
Served(e) ==
    /\ ran = "pathfind_system"
    /\ panicked = None
    /\ before.pathfinder[e].needs_pathfinding
    /\ ~pathfinder[e].needs_pathfinding
\* the route of the search that run made for e
RouteFound(e) ==
    Unwrap(astar(map, from_coords(position[e]), before.pathfinder[e].path_goal)).route

\* C23 as stated: the computed path has exactly one entry per tile of the
\* route, the centre of that tile, but for the last, which is the real goal
\* in place of the centre of the goal tile.
C23_GoalReplacesLastCentre ==
    \A e \in DOMAIN pathfinder :
        Served(e) =>
            /\ Len(pathfinder[e].path) = Len(RouteFound(e))
            /\ \A i \in 1..(Len(RouteFound(e)) - 1) :
                   pathfinder[e].path[i] = to_coords(RouteFound(e)[i])
            /\ pathfinder[e].path[Len(RouteFound(e))] = pathfinder[e].real_goal

\* C23, amended: the computed path has one entry per tile of the route from
\* the start tile to the goal tile, the centre of that tile, the centre of
\* the goal tile included, and after them one more entry, the real goal; the
\* tile sequence has the tile of the real goal in that last place.
C23_GoalFollowsLastCentre ==
    \A e \in DOMAIN pathfinder :
        Served(e) =>
            LET pf == pathfinder[e]
                n == Len(pf.path)
            IN /\ n = Len(pf.tile_path)
               /\ n >= 2
               /\ pf.tile_path[1] = from_coords(position[e])
               /\ pf.tile_path[n - 1] = before.pathfinder[e].path_goal
               /\ \A i \in 1..(n - 2) : pf.tile_path[i + 1] \in Neighbours(pf.tile_path[i])
               /\ \A i \in 1..(n - 1) : pf.path[i] = to_coords(pf.tile_path[i])
               /\ pf.path[n] = before.pathfinder[e].real_goal
               /\ pf.tile_path[n] = from_coords(before.pathfinder[e].real_goal)

\* a path over two tiles whose real goal is not the centre of the goal tile
C23_Witness ==
    /\ Served(1)
    /\ Len(RouteFound(1)) = 2
    /\ Len(pathfinder[1].path) = 3
    /\ pathfinder[1].path[2] = to_coords(before.pathfinder[1].path_goal)
    /\ pathfinder[1].path[3] # pathfinder[1].path[2]

\* the tile of the cursor was the tile of e when the Path Follower ran
OnCursorTile(e) ==
    /\ before.pathfinder[e].path_index < Len(before.pathfinder[e].tile_path)
    /\ from_coords(before.position[e]) =
           before.pathfinder[e].tile_path[before.pathfinder[e].path_index + 1]

\* C30: a run of the Path Follower moves the cursor of an entity one step on
\* when the cursor is below the path length and the entity stands in the
\* tile at the cursor, and leaves it alone otherwise; the one other system
\* that writes a cursor is pathfind_system, which sets it to 0 with the new
\* path.
C30_CursorStepsByOne ==
    panicked = None =>
        \A e \in DOMAIN pathfinder :
            pathfinder[e].path_index =
                IF ran = "follow_path_system" /\ OnCursorTile(e)
                THEN before.pathfinder[e].path_index + 1
                ELSE IF Served(e) THEN 0
                ELSE before.pathfinder[e].path_index

\* the entity has walked into the second tile of its path and the cursor
\* goes from 1 to 2
C30_Witness ==
    /\ ran = "follow_path_system"
    /\ OnCursorTile(1)
    /\ before.pathfinder[1].path_index = 1
    /\ pathfinder[1].path_index = 2
    /\ before.pathfinder[1].tile_path[2] # before.pathfinder[1].tile_path[1]

\* a coordinate with a negative component, or beyond the extent of the map
OffMap(p) ==
    \/ Lt(p[1], 0) \/ Lt(p[2], 0)
    \/ p[1] >= MapSize[1] * F(TILE_SIZE)
    \/ p[2] >= MapSize[2] * F(TILE_SIZE)

\* C24: the map update panics whenever the coordinate of a Person it converts
\* to a tile has a negative component or lies beyond the extent of the map,
\* so that no such coordinate indexes the map.
C24_OffMapIsFatal ==
    ran = "update_map_system" =>
        \A e \in DOMAIN position : OffMap(before.position[e]) => panicked # None

C26_HeuristicAdmissible ==
    \A e \in DOMAIN pathfinder :
        Served(e) =>
            get_diag_dist(map, from_coords(position[e]),
                          before.pathfinder[e].path_goal)
                <= Unwrap(astar(map, from_coords(position[e]),
                                before.pathfinder[e].path_goal)).cost

\* every tile of the map weighs 1.0
UnitMap == \A i \in DOMAIN map.data : map.data[i] = F(1)
\* the search of the last run went from tile (0,0) to tile (5,5)
CornerToFive(e) ==
    /\ Served(e)
    /\ from_coords(position[e]) = <<0, 0>>
    /\ before.pathfinder[e].path_goal = <<5, 5>>

\* C27: on a map whose tiles all weigh 1.0 the route from tile (0,0) to tile
\* (5,5) is the five diagonal steps (1,1) ... (5,5), at a total cost of 5.
C27_DiagonalRouteCostsFive ==
    \A e \in DOMAIN pathfinder :
        (CornerToFive(e) /\ UnitMap) =>
            /\ RouteFound(e) = [i \in 1..6 |-> <<i - 1, i - 1>>]
            /\ Unwrap(astar(map, <<0, 0>>, <<5, 5>>)).cost = F(5)
            /\ pathfinder[e].tile_path = [i \in 1..7 |-> IF i = 7 THEN <<5, 5>>
                                                          ELSE <<i - 1, i - 1>>]

\* that search has been made
C27_Witness ==
    /\ CornerToFive(1)
    /\ UnitMap
    /\ Len(pathfinder[1].tile_path) = 7

\* the Move a Move command to a point decomposes to
PointMove(pt) == MoveAction(<<Some(pt), None>>, [NoParams EXCEPT !.range = Some(F(0))])
\* the player has no click left and no command waits to be decomposed
Undisturbed ==
    /\ clicks = MaxCommands
    /\ controlled["p0"].current_command = EmptyCommand
\* the distance from a position to a point
DistTo(pos, pt) == Length(Vec2Sub(pt, pos))
\* the integrator has moved the player's entity, bound for pt, and brought
\* it nearer
Nearer(pt) ==
    (ran = "move_system" /\ nerve["p0"].current_action = PointMove(pt)
        /\ before.velocity["p0"] # <<0, 0>>) =>
        DistTo(position["p0"], pt) < DistTo(before.position["p0"], pt)
\* the engine has popped the Move to pt, the entity within a unit of pt
Arrived28(pt) ==
    /\ EngineRan
    /\ FoundAction("p0") = PointMove(pt)
    /\ nerve["p0"].current_action = EmptyAction
    /\ DistTo(position["p0"], pt) < F(1)

FleeMove(pt) ==
    MoveAction(<<Some(pt), None>>, [NoParams EXCEPT !.min_range = Some(F(200))])
\* the component of a velocity along the line from pt to pos: positive when
\* the velocity leads away from pt; a NaN velocity leads nowhere
Outward(vel, pos, pt) ==
    IF IsNaN(vel[1]) \/ IsNaN(vel[2]) THEN -1
    ELSE vel[1] * (pos[1] - pt[1]) + vel[2] * (pos[2] - pt[2])
\* the engine has run on the player's entity with the Flee Move current
Fleeing(pt) == EngineRan /\ FoundAction("p0") = FleeMove(pt)
\* the engine has popped the Flee Move
Escaped(pt) == Fleeing(pt) /\ nerve["p0"].current_action = EmptyAction
\* what one engine tick does to an entity that flees from pt, distances
\* compared as f32 compares them (no NaN is below a bound)
FleeTick(pt) ==
    Fleeing(pt) =>
        /\ Lt(DistTo(before.position["p0"], pt), F(200)) =>
               Outward(velocity["p0"], before.position["p0"], pt) > 0
        /\ velocity["p0"] # before.velocity["p0"] =>
               Outward(velocity["p0"], before.position["p0"], pt) > 0
        /\ Escaped(pt) => ~Lt(DistTo(before.position["p0"], pt), F(200) - F(1))

LeftWaiting(e) ==
    /\ ran = "pathfind_system"
    /\ panicked = None
    /\ before.pathfinder[e].needs_pathfinding
    /\ pathfinder[e].needs_pathfinding

\* C31: an entity whose request pathfind_system has left unserved because the
\* budget of the tick was spent has its path computed in a later tick.
C31_DeferredIsServedLater ==
    \A e \in Crowd :
        (DOMAIN pathfinder = Crowd /\ LeftWaiting(e)) ~> Served(e)

\* the player's entity holds the Command that a left click on an entity at
\* `mouse`, with `keys` held, writes
IssuedBy(mouse, keys) ==
    /\ ran = "player_control_system"
    /\ clicks > 0
    /\ ClickedFrom(1, mouse, position) # None
    /\ controlled["p0"].current_command = ClickCommand(mouse, keys, position)

\* C32: a click on an entity with left shift and left control both held
\* issues Follow: left control takes precedence over left shift.
C32_ControlBeatsShift ==
    \A mouse \in ClickPoints :
        IssuedBy(mouse, {"LShift", "LControl"}) =>
            controlled["p0"].current_command.command_type = "Follow"

\* an Attack is current for e with actions queued behind it
AttackHolds(e) ==
    /\ nerve[e].current_action.action_type = "Attack"
    /\ nerve[e].action_queue # <<>>
\* the step about to be taken decomposes a command of e
Decomposing(e) ==
    /\ pc = "move_controlled_system"
    /\ e \in DOMAIN controlled
    /\ controlled[e].current_command # EmptyCommand

\* C33: while an Attack is current and the queue is not empty, no step but
\* the decomposition of a command changes the Nerve: an engine tick leaves
\* current_action and the queue as they are, the target in band or out of it.
C33_AttackKeepsItsQueue ==
    [][\A e \in DOMAIN nerve :
          (AttackHolds(e) /\ ~Decomposing(e)) => nerve'[e] = nerve[e]]_vars

\* the engine has ticked an Attack whose target is out of band, a Wait queued
\* behind it, and the Nerve is as it was
C33_Witness ==
    /\ EngineRan
    /\ FoundAction("p0").action_type = "Attack"
    /\ before.nerve["p0"].action_queue # <<>>
    /\ Reattach(DistBefore("p0"), Param(FoundAction("p0"), "range"),
                Param(FoundAction("p0"), "min_range"))
    /\ nerve["p0"] = before.nerve["p0"]

Enqueued(e) ==
    /\ ran = "follow_path_system"
    /\ panicked = None
    /\ Len(nerve[e].action_queue) > Len(before.nerve[e].action_queue)

C37_PathAndCursorInBounds ==
    \A e \in DOMAIN pathfinder :
        /\ Len(pathfinder[e].tile_path) = Len(pathfinder[e].path)
        /\ pathfinder[e].path_index >= 0
        /\ pathfinder[e].path_index <= Len(pathfinder[e].tile_path)

\* the follower has stepped the cursor to the end of a computed path, where
\* tile_path[cursor] is no longer read
C37_Witness ==
    \E e \in DOMAIN pathfinder :
        /\ ran = "follow_path_system"
        /\ panicked = None
        /\ Len(pathfinder[e].tile_path) >= 2
        /\ pathfinder[e].path_index = Len(pathfinder[e].tile_path)
        /\ before.pathfinder[e].path_index < pathfinder[e].path_index


\* the squadmate stands where a player command sent it: within a unit of
\* the commanded point, which no loitering walk of the run comes near
AtCommandedPoint(e) == Lt(DistTo(position[e], SquadPoint), F(1))

OnTheMap(p) == ~BadCoords(p) /\ InGrid(from_coords(p))

\* C39: no sequence of player commands and ticks moves a Person to a
\* position with a negative coordinate or outside the map grid; the map
\* update of every tick finds a tile for every Person and never panics.
C39_PersonsStayOnTheMap ==
    /\ \A e \in DOMAIN position : OnTheMap(position[e])
    /\ (ran = "update_map_system" => panicked = None)


\* the Move arm ran for entity e and assigned its velocity: the entity was
\* nearer to its target than min_range or farther from it than range
VelocityReassigned(e) ==
    /\ EngineRan
    /\ FoundAction(e).action_type = "Move"
    /\ \/ /\ Param(FoundAction(e), "min_range") # None
          /\ Lt(DistBefore(e), Unwrap(Param(FoundAction(e), "min_range")))
       \/ /\ Param(FoundAction(e), "range") # None
          /\ Gt(DistBefore(e), Unwrap(Param(FoundAction(e), "range")))

\* C40: a Move tick never derives a velocity from the direction of a
\* zero-length target vector.  Whenever a Move assigns the velocity, the
\* distance between the entity and its resolved target is strictly positive,
\* a self-targeted Move and a Move with min_range > 0 whose entity stands on
\* its target included.
C40_NoVelocityFromZeroVector ==
    \A e \in DOMAIN nerve : VelocityReassigned(e) => Gt(DistBefore(e), 0)

=============================================================================
